---------------------------- MODULE Spec2Model ----------------------------
(***************************************************************************)
(* Model of erl, the External Rate Limiter: window bucketing, the counter  *)
(* stores (Memory, SQLite, Redis, Tiered) and the Limiter's admission      *)
(* check.                                                                  *)
(*                                                                         *)
(* Strings the code inspects character by character (URLs, patterns, the   *)
(* decimal count Redis keeps) are sequences of one-character strings.      *)
(* Instants are seconds since 2024-01-01T00:00:00Z.  A bucket key is the   *)
(* tuple of the calendar fields its time layout prints.                    *)
(***************************************************************************)
EXTENDS Integers, Sequences, FiniteSets, TLC

VARIABLES
    backend,    \* the Store behind the interface: memory, sqlite, redis, tiered
    mem,        \* MemoryStore.buckets (also the TieredStore's memory tier)
    db,         \* rows of the SQLite table erl_counters
    rds,        \* Redis hashes erl:<key>, each with its expiry instant
    up,         \* whether the durable backend answers (FALSE: its calls fail)
    clk,        \* the wall clock: index into Instants
    last,       \* the last completed call and what it returned
    wasReset,   \* per key: -1, or, when no Increment of the key has succeeded
                \* since its last Reset, whether that Reset wiped a count (1)
                \* or found none (0)
    resources,  \* Limiter.resources, in registration order
    onLimitReached, \* whether Limiter.onLimitReached is set (not nil)
    charged     \* per resource name: the bucket key of the last Check charged
                \* to it, how many Checks were charged to it under that
                \* bucket key since the name's last Reset, and whether the
                \* process restarted between the first and the last of them

\* Concurrent callers
VARIABLES
    pc,         \* per goroutine: where it stands in its call
    loc,        \* per goroutine: the call's arguments, locals and result
    mu,         \* MemoryStore.mu: the goroutine holding it, 0 when free
    lk,         \* the SQLite database file's locks: the connections holding
                \* SHARED and the one holding RESERVED (0: none)
    hist        \* per key: the counts returned by the committed Increments,
                \* in commit order

vars == <<backend, mem, db, rds, up, clk, last, wasReset, resources,
          onLimitReached, charged, pc, loc, mu, lk, hist>>

conc == <<pc, loc, mu, lk, hist>>

\* The Limiter's own state, and the direct caller's bookkeeping.
limiter == <<resources, onLimitReached, charged>>

-----------------------------------------------------------------------------
(* Bounds of the model *)

\* The direct caller does not increment a counter past this value; the
\* Limiter's caller makes at most one Check more than this per resource and
\* bucket.
MaxCount == 2

\* The instants the wall clock passes through: two in one minute, the next
\* minute, and 2024-01-31T00:01:00, thirty days later in the same month.
Instants == <<0, 30, 60, 30 * 86400 + 60>>

Keys == {"r1", "r2"}

\* The goroutines that call concurrently.
NumProcs == 3

Procs == 1..NumProcs

-----------------------------------------------------------------------------
(* Generic maps (Go map / table keyed by the counter key) *)

EmptyMap == [k \in {} |-> 0]

Put(m, k, v) == [x \in (DOMAIN m) \cup {k} |-> IF x = k THEN v ELSE m[x]]

Del(m, k) == [x \in (DOMAIN m) \ {k} |-> m[x]]

-----------------------------------------------------------------------------
(* Calendar arithmetic of time.Time in UTC *)

IsLeap(y) == (y % 4 = 0 /\ y % 100 # 0) \/ y % 400 = 0

DaysInYear(y) == IF IsLeap(y) THEN 366 ELSE 365

DaysInMonth(y, m) ==
    IF m = 2 THEN (IF IsLeap(y) THEN 29 ELSE 28)
    ELSE IF m \in {4, 6, 9, 11} THEN 30 ELSE 31

RECURSIVE YearFrom(_, _)
YearFrom(y, d) ==
    IF d < DaysInYear(y) THEN <<y, d>> ELSE YearFrom(y + 1, d - DaysInYear(y))

RECURSIVE MonthFrom(_, _, _)
MonthFrom(y, m, d) ==
    IF d < DaysInMonth(y, m) THEN <<m, d + 1>>
    ELSE MonthFrom(y, m + 1, d - DaysInMonth(y, m))

\* The calendar fields of instant t (t.UTC()).
Civil(t) ==
    LET yd == YearFrom(2024, t \div 86400)
        md == MonthFrom(yd[1], 1, yd[2])
        s  == t % 86400
    IN [year |-> yd[1], month |-> md[1], day |-> md[2],
        hour |-> s \div 3600, minute |-> (s % 3600) \div 60, second |-> s % 60]

RECURSIVE DaysBeforeYear(_)
DaysBeforeYear(y) ==
    IF y <= 2024 THEN 0 ELSE DaysInYear(y - 1) + DaysBeforeYear(y - 1)

RECURSIVE DaysBeforeMonth(_, _)
DaysBeforeMonth(y, m) ==
    IF m <= 1 THEN 0 ELSE DaysInMonth(y, m - 1) + DaysBeforeMonth(y, m - 1)

\* time.Date(y, mo, d, h, mi, s, 0, time.UTC) as an instant.
Date(y, mo, d, h, mi, s) ==
    (DaysBeforeYear(y) + DaysBeforeMonth(y, mo) + (d - 1)) * 86400
        + h * 3600 + mi * 60 + s

-----------------------------------------------------------------------------
(* Window kinds: duration, bucket key, bucket start *)

PerMinute == "PerMinute"
PerHour   == "PerHour"
PerDay    == "PerDay"
PerMonth  == "PerMonth"

WindowKinds == {PerMinute, PerHour, PerDay, PerMonth}

\* Window.Duration, in seconds.
Duration(w) ==
    CASE w = PerMinute -> 60
      [] w = PerHour   -> 3600
      [] w = PerDay    -> 24 * 3600
      [] w = PerMonth  -> 30 * 24 * 3600
      [] OTHER         -> 3600

\* Window.BucketKey: the fields the layout prints, most significant first.
BucketKey(w, t) ==
    LET c == Civil(t) IN
    CASE w = PerMinute -> <<c.year, c.month, c.day, c.hour, c.minute>>
      [] w = PerHour   -> <<c.year, c.month, c.day, c.hour>>
      [] w = PerDay    -> <<c.year, c.month, c.day>>
      [] w = PerMonth  -> <<c.year, c.month>>
      [] OTHER         -> <<c.year, c.month, c.day, c.hour>>

\* BucketStart that keeps the day of the month for PerMonth.
BucketStartKeepsDay(w, t) ==
    LET c == Civil(t) IN
    CASE w = PerMinute -> Date(c.year, c.month, c.day, c.hour, c.minute, 0)
      [] w = PerHour   -> Date(c.year, c.month, c.day, c.hour, 0, 0)
      [] OTHER         -> Date(c.year, c.month, c.day, 0, 0, 0)

\* Window.BucketStart.
BucketStart(w, t) ==
    LET c == Civil(t) IN
    CASE w = PerMinute -> Date(c.year, c.month, c.day, c.hour, c.minute, 0)
      [] w = PerHour   -> Date(c.year, c.month, c.day, c.hour, 0, 0)
      [] w = PerDay    -> Date(c.year, c.month, c.day, 0, 0, 0)
      [] w = PerMonth  -> Date(c.year, c.month, 1, 0, 0, 0)
      [] OTHER         -> Date(c.year, c.month, c.day, c.hour, 0, 0)

\* The store.Window that Check, GetUsage and Snapshot build from "now".
WindowOf(w, t) ==
    [Duration |-> Duration(w), BucketKey |-> BucketKey(w, t),
     BucketStart |-> BucketStart(w, t)]

now == Instants[clk]

\* WindowOf at each instant of the clock, computed once.
WindowTable ==
    [kind \in WindowKinds, i \in 1..Len(Instants) |->
        WindowOf(kind, Instants[i])]

\* The window of a kind at the current instant.
WindowNow(kind) == WindowTable[kind, clk]

-----------------------------------------------------------------------------
(* Strings as sequences of characters *)

\* strings.TrimRight(s, "/").
RECURSIVE TrimRightSlash(_)
TrimRightSlash(s) ==
    IF Len(s) > 0 /\ s[Len(s)] = "/"
    THEN TrimRightSlash(SubSeq(s, 1, Len(s) - 1)) ELSE s

HasPrefix(s, p) == Len(s) >= Len(p) /\ SubSeq(s, 1, Len(p)) = p

HasSuffix(s, p) ==
    Len(s) >= Len(p) /\ SubSeq(s, Len(s) - Len(p) + 1, Len(s)) = p

\* strings.Index(s, ch) + 1: the first position of ch in s, 0 when absent.
IndexOf(s, ch) ==
    IF \E i \in 1..Len(s) : s[i] = ch
    THEN CHOOSE i \in 1..Len(s) :
            s[i] = ch /\ \A j \in 1..(i - 1) : s[j] # ch
    ELSE 0

\* strings.Cut(s, ch): what precedes and what follows the first ch.
CutBefore(s, ch) ==
    IF IndexOf(s, ch) = 0 THEN s ELSE SubSeq(s, 1, IndexOf(s, ch) - 1)

CutAfter(s, ch) ==
    IF IndexOf(s, ch) = 0 THEN <<>> ELSE SubSeq(s, IndexOf(s, ch) + 1, Len(s))

-----------------------------------------------------------------------------
(* url.Parse, as far as matchURL reads its result: Host and Path.  The     *)
(* alphabet has the letters h, g, p, v, x (none a hex digit), the          *)
(* separators of a URL, "%" (an escape, here always a malformed one), a    *)
(* space and the control character "\n".                                   *)

Letters == {"h", "g", "p", "v", "x"}

\* The position of the first character of raw that cannot continue a
\* scheme (letters can, and "." after the first character), 0 if none.
SchemeEnd(raw) ==
    LET stop == {i \in 1..Len(raw) :
                    raw[i] \notin Letters /\ ~(raw[i] = "." /\ i > 1)}
    IN IF stop = {} THEN 0 ELSE CHOOSE k \in stop : \A j \in stop : k <= j

\* getScheme, the scan having stopped at position i: [ok, scheme, rest].
\* ":" ends a scheme and must not come first; anything else means there is
\* no scheme.
SchemeAt(raw, i) ==
    IF i # 0 /\ raw[i] = ":"
    THEN IF i = 1
         THEN [ok |-> FALSE, scheme |-> <<>>, rest |-> <<>>]
         ELSE [ok |-> TRUE, scheme |-> SubSeq(raw, 1, i - 1),
               rest |-> SubSeq(raw, i + 1, Len(raw))]
    ELSE [ok |-> TRUE, scheme |-> <<>>, rest |-> raw]

GetScheme(raw) == SchemeAt(raw, SchemeEnd(raw))

\* Whether a host or a path is one url.Parse accepts.
ValidHost(host) == \A i \in 1..Len(host) : host[i] \notin {"%", " "}

ValidPath(path) == \A i \in 1..Len(path) : path[i] # "%"

BadURL == [ok |-> FALSE, Host |-> <<>>, Path |-> <<>>]

\* The host and the path of an authority and what follows it.
ParseHostPath(host, path) ==
    IF ValidHost(host) /\ ValidPath(path)
    THEN [ok |-> TRUE, Host |-> host, Path |-> path]
    ELSE BadURL

\* What follows "//": the authority up to the first "/", then the path.
ParseAuthority(auth) ==
    ParseHostPath(CutBefore(auth, "/"),
                  IF IndexOf(auth, "/") = 0 THEN <<>>
                  ELSE SubSeq(auth, IndexOf(auth, "/"), Len(auth)))

\* What follows the scheme, the query cut off.
ParseRest(scheme, rest) ==
    IF ~HasPrefix(rest, <<"/">>) /\ scheme # <<>>
    THEN [ok |-> TRUE, Host |-> <<>>, Path |-> <<>>]
    ELSE IF ~HasPrefix(rest, <<"/">>)
              /\ IndexOf(CutBefore(rest, "/"), ":") # 0
    THEN BadURL
    ELSE IF HasPrefix(rest, <<"/", "/">>)
            /\ (scheme # <<>> \/ ~HasPrefix(rest, <<"/", "/", "/">>))
    THEN ParseAuthority(SubSeq(rest, 3, Len(rest)))
    ELSE IF ValidPath(rest)
    THEN [ok |-> TRUE, Host |-> <<>>, Path |-> rest]
    ELSE BadURL

ParseScheme(sch) ==
    IF ~sch.ok THEN BadURL
    ELSE ParseRest(sch.scheme, CutBefore(sch.rest, "?"))

\* The URL without its fragment.
ParseNoFragment(u) ==
    IF \E i \in 1..Len(u) : u[i] = "\n" THEN BadURL
    ELSE IF u = <<"*">> THEN [ok |-> TRUE, Host |-> <<>>, Path |-> <<"*">>]
    ELSE ParseScheme(GetScheme(u))

\* url.Parse(rawURL): [ok, Host, Path].
ParseURL(rawURL) == ParseNoFragment(CutBefore(rawURL, "#"))

-----------------------------------------------------------------------------
(* The pattern matcher *)

\* wildcardMatch whose star stands for at least one character, as its
\* comment has it.
RECURSIVE wildcardMatchNonEmpty(_, _)
wildcardMatchNonEmpty(pattern, str) ==
    IF Len(pattern) = 0 THEN Len(str) = 0
    ELSE IF pattern[1] = "*"
         THEN \E i \in 1..Len(str) :
                 wildcardMatchNonEmpty(Tail(pattern),
                                       SubSeq(str, i + 1, Len(str)))
    ELSE IF Len(str) = 0 \/ pattern[1] # str[1] THEN FALSE
    ELSE wildcardMatchNonEmpty(Tail(pattern), Tail(str))

RECURSIVE wildcardMatch(_, _)
wildcardMatch(pattern, str) ==
    IF pattern = <<"*">> THEN TRUE
    ELSE IF Len(pattern) = 0 THEN Len(str) = 0
    ELSE IF pattern[1] = "*"
         THEN IF Len(pattern) = 1 THEN TRUE
              ELSE \E i \in 0..Len(str) :
                      wildcardMatch(Tail(pattern), SubSeq(str, i + 1, Len(str)))
    ELSE IF Len(str) = 0 \/ pattern[1] # str[1] THEN FALSE
    ELSE wildcardMatch(Tail(pattern), Tail(str))

\* globMatch without the branch for a trailing "/*".
globMatchNoPrefixBranch(pattern, value) ==
    pattern = value \/ wildcardMatch(pattern, value)

globMatch(pattern, value) ==
    IF pattern = value THEN TRUE
    ELSE IF HasSuffix(pattern, <<"/", "*">>)
            /\ LET prefix == SubSeq(pattern, 1, Len(pattern) - 2)
               IN value = prefix \/ HasPrefix(value, prefix \o <<"/">>)
         THEN TRUE
    ELSE wildcardMatch(pattern, value)

\* matchURL that goes on with the empty URL when url.Parse fails.
MatchParsedIgnoringError(parsed, pattern) ==
    globMatch(TrimRightSlash(pattern),
              TrimRightSlash(parsed.Host \o parsed.Path))

\* matchURL once url.Parse has returned.
MatchParsed(parsed, pattern) ==
    IF ~parsed.ok THEN FALSE
    ELSE globMatch(TrimRightSlash(pattern),
                   TrimRightSlash(parsed.Host \o parsed.Path))

matchURL(rawURL, pattern) == MatchParsed(ParseURL(rawURL), pattern)

-----------------------------------------------------------------------------
(* MemoryStore: a map key -> bucket{count, bucketKey}.  Each method holds  *)
(* m.mu from entry to return, so it is one step.                           *)

NewMemoryStore == EmptyMap

\* MemIncrement that keeps the old count when the bucket key changes.
MemIncrementNoRollover(m, key, w) ==
    LET b == IF key \notin DOMAIN m
             THEN [count |-> 0, bucketKey |-> w.BucketKey] ELSE m[key]
        c == b.count + 1
    IN [buckets |-> Put(m, key, [count |-> c, bucketKey |-> w.BucketKey]),
        count |-> c]

\* A mutex that excludes nobody.
CanLockAlways(holder) == TRUE

\* sync.Mutex.Lock returns once no goroutine holds the mutex.
CanLock(holder) == holder = 0

\* Increment's lookup: a missing bucket, or one of another bucket key, is
\* replaced by a fresh one; count is the b.count that b.count++ reads.
MemLoad(m, key, w) ==
    LET fresh == key \notin DOMAIN m \/ m[key].bucketKey # w.BucketKey
        m1    == IF fresh
                 THEN Put(m, key, [count |-> 0, bucketKey |-> w.BucketKey])
                 ELSE m
    IN [buckets |-> m1, count |-> m1[key].count]

\* The write of b.count++, having read c.
MemStore(m, key, w, c) ==
    Put(m, key, [count |-> c + 1, bucketKey |-> w.BucketKey])

\* Increment with m.mu held throughout.
MemIncrement(m, key, w) ==
    LET l == MemLoad(m, key, w)
    IN [buckets |-> MemStore(l.buckets, key, w, l.count),
        count |-> l.count + 1]

MemGet(m, key, w) ==
    IF key \notin DOMAIN m \/ m[key].bucketKey # w.BucketKey
    THEN 0 ELSE m[key].count

\* MemReset that replaces the whole map instead of deleting one key.
MemResetAll(m, key) == IF key \in DOMAIN m THEN EmptyMap ELSE m

MemReset(m, key) == Del(m, key)

-----------------------------------------------------------------------------
(* SQLiteStore: table erl_counters(key, count, bucket_key, window_seconds) *)

\* The row Increment writes, given what its SELECT found.
SqlNextRow(found, row, w) ==
    LET count == IF ~found THEN 1
                 ELSE (IF row.bucket_key # w.BucketKey THEN 0 ELSE row.count) + 1
    IN [count |-> count, bucket_key |-> w.BucketKey,
        window_seconds |-> w.Duration]

\* Increment with no other connection active: BEGIN, SELECT, INSERT or
\* UPDATE, COMMIT.  ok is whether the database answers.
SqlIncrement(d, key, w, ok) ==
    IF ~ok THEN [rows |-> d, count |-> 0, err |-> "backend"]
    ELSE LET found == key \in DOMAIN d
             row   == SqlNextRow(found, IF found THEN d[key] ELSE <<>>, w)
         IN [rows |-> Put(d, key, row), count |-> row.count, err |-> "nil"]

SqlGet(d, key, w, ok) ==
    IF ~ok THEN [count |-> 0, err |-> "backend"]
    ELSE IF key \notin DOMAIN d THEN [count |-> 0, err |-> "nil"]
    ELSE IF d[key].bucket_key # w.BucketKey THEN [count |-> 0, err |-> "nil"]
    ELSE [count |-> d[key].count, err |-> "nil"]

SqlReset(d, key, ok) ==
    IF ~ok THEN [rows |-> d, err |-> "backend"]
    ELSE [rows |-> Del(d, key), err |-> "nil"]

-----------------------------------------------------------------------------
(* RedisStore: hash erl:<key> with fields count (a decimal string) and     *)
(* bucket_key, and the key's expiry instant.                               *)

Digits == <<"0", "1", "2", "3", "4", "5", "6", "7", "8", "9">>

\* The decimal string of n >= 0.
RECURSIVE Itoa(_)
Itoa(n) == IF n < 10 THEN <<Digits[n + 1]>>
           ELSE Itoa(n \div 10) \o <<Digits[(n % 10) + 1]>>

DigitValue(ch) == CHOOSE i \in 0..9 : Digits[i + 1] = ch

\* strconv.ParseInt(s, 10, 64) of a string of digits.
RECURSIVE Atoi(_)
Atoi(s) == IF Len(s) = 0 THEN 0
           ELSE Atoi(SubSeq(s, 1, Len(s) - 1)) * 10 + DigitValue(s[Len(s)])

redisKey(key) == "erl:" \o key

\* incrementScript, run atomically by Redis at instant t.
RedisIncrement(r, key, w, t, ok) ==
    IF ~ok THEN [hashes |-> r, count |-> 0, err |-> "backend"]
    ELSE
    LET k   == redisKey(key)
        ttl == w.Duration
        current_bucket == IF k \in DOMAIN r THEN r[k].bucket_key ELSE <<>>
    IN IF current_bucket # w.BucketKey
       THEN LET old == IF k \in DOMAIN r THEN r[k].expireAt ELSE 0
                h   == [count |-> <<"1">>, bucket_key |-> w.BucketKey,
                        expireAt |-> IF ttl > 0 THEN t + ttl ELSE old]
            IN [hashes |-> Put(r, k, h), count |-> 1, err |-> "nil"]
       ELSE LET c == Atoi(r[k].count) + 1
            IN [hashes |-> Put(r, k, [r[k] EXCEPT !.count = Itoa(c)]),
                count |-> c, err |-> "nil"]

RedisGet(r, key, w, ok) ==
    LET k == redisKey(key) IN
    IF ~ok THEN [count |-> 0, err |-> "backend"]
    ELSE IF k \notin DOMAIN r THEN [count |-> 0, err |-> "nil"]
    ELSE IF r[k].bucket_key # w.BucketKey THEN [count |-> 0, err |-> "nil"]
    ELSE [count |-> Atoi(r[k].count), err |-> "nil"]

\* The expiry instant of the key's hash, 0 when it has none or is absent.
RedisExpiry(r, key) ==
    IF redisKey(key) \in DOMAIN r THEN r[redisKey(key)].expireAt ELSE 0

RedisReset(r, key, ok) ==
    IF ~ok THEN [hashes |-> r, err |-> "backend"]
    ELSE [hashes |-> Del(r, redisKey(key)), err |-> "nil"]

\* Redis drops a key once its expiry instant is reached (0: no expiry set).
RedisExpire(r, t) ==
    LET live == {k \in DOMAIN r : r[k].expireAt = 0 \/ t < r[k].expireAt}
    IN [k \in live |-> r[k]]

-----------------------------------------------------------------------------
(* TieredStore: a MemoryStore in front of a persistent Store (here the     *)
(* SQLiteStore, as NewTieredStore is used in the tests and the README).    *)

\* TieredIncrement that returns the memory tier's count.
TieredIncrementMemoryCount(m, d, key, w, ok) ==
    LET p == SqlIncrement(d, key, w, ok) IN
    IF p.err # "nil"
    THEN [memory |-> m, rows |-> d, count |-> 0, err |-> p.err]
    ELSE [memory |-> MemIncrement(m, key, w).buckets, rows |-> p.rows,
          count |-> MemIncrement(m, key, w).count, err |-> "nil"]

\* TieredIncrement that counts in the memory tier before it asks the
\* persistent tier.
TieredIncrementMemoryFirst(m, d, key, w, ok) ==
    LET p == SqlIncrement(d, key, w, ok) IN
    [memory |-> MemIncrement(m, key, w).buckets, rows |-> p.rows,
     count |-> p.count, err |-> p.err]

TieredIncrement(m, d, key, w, ok) ==
    LET p == SqlIncrement(d, key, w, ok) IN
    IF p.err # "nil"
    THEN [memory |-> m, rows |-> d, count |-> 0, err |-> p.err]
    ELSE [memory |-> MemIncrement(m, key, w).buckets, rows |-> p.rows,
          count |-> p.count, err |-> "nil"]

\* TieredGet that backfills the memory tier with the bucket key but not the
\* persistent count.
TieredGetBadBackfill(m, d, key, w, ok) ==
    LET c == MemGet(m, key, w) IN
    IF c > 0 THEN [memory |-> m, count |-> c, err |-> "nil"]
    ELSE LET p == SqlGet(d, key, w, ok) IN
         IF p.err # "nil" THEN [memory |-> m, count |-> 0, err |-> p.err]
         ELSE [memory |-> IF p.count > 0
                          THEN Put(m, key, [count |-> 1,
                                            bucketKey |-> w.BucketKey])
                          ELSE m,
               count |-> p.count, err |-> "nil"]

\* TieredGet that reads through to the persistent tier without backfilling.
TieredGetNoBackfill(m, d, key, w, ok) ==
    LET c == MemGet(m, key, w) IN
    IF c > 0 THEN [memory |-> m, count |-> c, err |-> "nil"]
    ELSE LET p == SqlGet(d, key, w, ok) IN
         IF p.err # "nil" THEN [memory |-> m, count |-> 0, err |-> p.err]
         ELSE [memory |-> m, count |-> p.count, err |-> "nil"]

TieredGet(m, d, key, w, ok) ==
    LET c == MemGet(m, key, w) IN
    IF c > 0 THEN [memory |-> m, count |-> c, err |-> "nil"]
    ELSE LET p == SqlGet(d, key, w, ok) IN
         IF p.err # "nil" THEN [memory |-> m, count |-> 0, err |-> p.err]
         ELSE [memory |-> IF p.count > 0
                          THEN Put(m, key, [count |-> p.count,
                                            bucketKey |-> w.BucketKey])
                          ELSE m,
               count |-> p.count, err |-> "nil"]

\* TieredReset that keeps the memory tier's entry when the persistent Reset
\* fails.
TieredResetAllOrNothing(m, d, key, ok) ==
    LET p == SqlReset(d, key, ok) IN
    [memory |-> IF p.err = "nil" THEN MemReset(m, key) ELSE m,
     rows |-> p.rows, err |-> p.err]

TieredReset(m, d, key, ok) ==
    LET p == SqlReset(d, key, ok) IN
    [memory |-> MemReset(m, key), rows |-> p.rows, err |-> p.err]

-----------------------------------------------------------------------------
(* The Store interface: a call dispatched on the backend.  S is the record *)
(* [mem, db, rds] of the backends' states, t the instant of the call, ok   *)
(* whether the durable backend answers.                                    *)

Backends == {"memory", "sqlite", "redis", "tiered"}

Stores == [mem |-> mem, db |-> db, rds |-> rds]

StoreIncrement(b, S, key, w, t, ok) ==
    CASE b = "memory" ->
           LET r == MemIncrement(S.mem, key, w)
           IN [S |-> [S EXCEPT !.mem = r.buckets], count |-> r.count,
               err |-> "nil"]
      [] b = "sqlite" ->
           LET r == SqlIncrement(S.db, key, w, ok)
           IN [S |-> [S EXCEPT !.db = r.rows], count |-> r.count,
               err |-> r.err]
      [] b = "redis" ->
           LET r == RedisIncrement(S.rds, key, w, t, ok)
           IN [S |-> [S EXCEPT !.rds = r.hashes], count |-> r.count,
               err |-> r.err]
      [] b = "tiered" ->
           LET r == TieredIncrement(S.mem, S.db, key, w, ok)
           IN [S |-> [S EXCEPT !.mem = r.memory, !.db = r.rows],
               count |-> r.count, err |-> r.err]

StoreGet(b, S, key, w, ok) ==
    CASE b = "memory" ->
           [S |-> S, count |-> MemGet(S.mem, key, w), err |-> "nil"]
      [] b = "sqlite" ->
           LET r == SqlGet(S.db, key, w, ok)
           IN [S |-> S, count |-> r.count, err |-> r.err]
      [] b = "redis" ->
           LET r == RedisGet(S.rds, key, w, ok)
           IN [S |-> S, count |-> r.count, err |-> r.err]
      [] b = "tiered" ->
           LET r == TieredGet(S.mem, S.db, key, w, ok)
           IN [S |-> [S EXCEPT !.mem = r.memory], count |-> r.count,
               err |-> r.err]

StoreReset(b, S, key, ok) ==
    CASE b = "memory" ->
           [S |-> [S EXCEPT !.mem = MemReset(S.mem, key)], err |-> "nil"]
      [] b = "sqlite" ->
           LET r == SqlReset(S.db, key, ok)
           IN [S |-> [S EXCEPT !.db = r.rows], err |-> r.err]
      [] b = "redis" ->
           LET r == RedisReset(S.rds, key, ok)
           IN [S |-> [S EXCEPT !.rds = r.hashes], err |-> r.err]
      [] b = "tiered" ->
           LET r == TieredReset(S.mem, S.db, key, ok)
           IN [S |-> [S EXCEPT !.mem = r.memory, !.db = r.rows],
               err |-> r.err]

-----------------------------------------------------------------------------
(* What a backend holds for a key, read off its raw state: the entry       *)
(* [count, bucketKey], or NoEntry.  For the tiered backend the persistent  *)
(* tier is the one that counts.                                            *)

NoEntry == [count |-> 0, bucketKey |-> <<>>]

MemEntry(m, key) == IF key \in DOMAIN m THEN m[key] ELSE NoEntry

SqlEntry(d, key) ==
    IF key \in DOMAIN d
    THEN [count |-> d[key].count, bucketKey |-> d[key].bucket_key]
    ELSE NoEntry

RedisEntry(r, key) ==
    IF redisKey(key) \in DOMAIN r
    THEN [count |-> Atoi(r[redisKey(key)].count),
          bucketKey |-> r[redisKey(key)].bucket_key]
    ELSE NoEntry

\* The count an entry holds for a bucket key.
CountIn(e, bucketKey) == IF e.bucketKey = bucketKey THEN e.count ELSE 0

Entry(b, S, key) ==
    CASE b = "memory" -> MemEntry(S.mem, key)
      [] b = "sqlite" -> SqlEntry(S.db, key)
      [] b = "redis"  -> RedisEntry(S.rds, key)
      [] b = "tiered" -> SqlEntry(S.db, key)

-----------------------------------------------------------------------------
(* Goroutines: none is inside a call until it starts one.                  *)

NoLocal == [op |-> "none"]

NoLocks == [shared |-> {}, reserved |-> 0]

Idle ==
    /\ pc = [p \in Procs |-> "idle"]
    /\ loc = [p \in Procs |-> NoLocal]
    /\ mu = 0
    /\ lk = NoLocks
    /\ hist = [k \in Keys |-> <<>>]

-----------------------------------------------------------------------------
(* The store driven directly by one caller, one call at a time, with the   *)
(* windows the Limiter would build at the instant of the call.             *)

\* before: the entry the backend held for the key when the call started;
\* cached: what the memory tier answered for the bucket at that moment;
\* afterReset: wasReset of the key at that moment.
NoCall == [op |-> "none", key |-> "", kind |-> "", bucketKey |-> <<>>,
           count |-> 0, err |-> "nil", before |-> NoEntry, cached |-> 0,
           afterReset |-> -1]

Called(op, key, kind, w, count, err) ==
    [op |-> op, key |-> key, kind |-> kind, bucketKey |-> w.BucketKey,
     count |-> count, err |-> err,
     before |-> Entry(backend, Stores, key),
     cached |-> IF backend = "tiered" THEN MemGet(mem, key, w) ELSE 0,
     afterReset |-> wasReset[key]]

StoreInit ==
    /\ backend \in Backends
    /\ mem = NewMemoryStore
    /\ db = EmptyMap
    /\ rds = EmptyMap
    /\ up = TRUE
    /\ clk = 1
    /\ last = NoCall
    /\ wasReset = [k \in Keys |-> -1]
    /\ resources = <<>>
    /\ onLimitReached = FALSE
    /\ charged = EmptyMap
    /\ Idle

Apply(S) ==
    /\ mem' = S.mem
    /\ db' = S.db
    /\ rds' = S.rds

SIncrement(key, kind) ==
    LET w == WindowNow(kind)
        r == StoreIncrement(backend, Stores, key, w, now, up)
    IN /\ CountIn(Entry(backend, Stores, key), w.BucketKey) < MaxCount
       /\ Apply(r.S)
       /\ last' = Called("Increment", key, kind, w, r.count, r.err)
       /\ wasReset' = IF r.err = "nil" THEN [wasReset EXCEPT ![key] = -1]
                      ELSE wasReset
       /\ UNCHANGED <<conc, backend, up, clk, limiter>>

SGet(key, kind) ==
    LET w == WindowNow(kind)
        r == StoreGet(backend, Stores, key, w, up)
    IN /\ Apply(r.S)
       /\ last' = Called("Get", key, kind, w, r.count, r.err)
       /\ UNCHANGED <<conc, backend, up, clk, wasReset, limiter>>

SReset(key) ==
    LET r == StoreReset(backend, Stores, key, up)
    IN /\ Apply(r.S)
       /\ last' = Called("Reset", key, "", [BucketKey |-> <<>>], 0, r.err)
       /\ wasReset' = IF r.err = "nil"
                      THEN [wasReset EXCEPT
                              ![key] = IF Entry(backend, Stores, key).count > 0
                                       THEN 1 ELSE 0]
                      ELSE wasReset
       /\ UNCHANGED <<conc, backend, up, clk, limiter>>

\* The clock moves on; Redis drops the keys whose expiry has passed.
Tick ==
    /\ clk < Len(Instants)
    /\ clk' = clk + 1
    /\ rds' = RedisExpire(rds, Instants[clk + 1])
    /\ UNCHANGED <<conc, backend, mem, db, up, last, wasReset, limiter>>

\* The process restarts: NewTieredStore over the same persistent store
\* starts with an empty memory tier.
SRestart ==
    /\ backend = "tiered"
    /\ mem' = NewMemoryStore
    /\ UNCHANGED <<conc, backend, db, rds, up, clk, last, wasReset, limiter>>

\* The durable backend stops or resumes answering.
Outage ==
    /\ backend # "memory"
    /\ up' = ~up
    /\ UNCHANGED <<conc, backend, mem, db, rds, clk, last, wasReset, limiter>>

\* The window kinds the direct caller uses.
StoreKinds == {PerMinute, PerHour}

\* The direct caller's calls all fall on the first day.
STick ==
    /\ clk < Len(Instants)
    /\ Instants[clk + 1] < 86400
    /\ Tick

StoreNext ==
    \/ \E key \in Keys, kind \in StoreKinds : SIncrement(key, kind)
    \/ \E key \in Keys, kind \in StoreKinds : SGet(key, kind)
    \/ \E key \in Keys : SReset(key)
    \/ STick
    \/ SRestart
    \/ Outage

SpecStore == StoreInit /\ [][StoreNext]_vars

-----------------------------------------------------------------------------
(* Claims about the Store contract, checked under SpecStore *)

\* C6: in every backend, a successful Increment that finds no entry for the
\* key, or an entry of another bucket key, returns 1 and stores the new
\* bucket key; one that finds an entry of the same bucket key returns the
\* stored count plus 1.  (For the tiered backend the stored entry is the
\* persistent tier's; the memory tier takes the bucket key too.)
C6_IncrementRollover ==
    [][\A key \in Keys, kind \in StoreKinds :
         (SIncrement(key, kind) /\ last'.err = "nil") =>
            LET w == WindowOf(kind, now)
                e == Entry(backend, Stores, key)
            IN /\ last'.count = IF e = NoEntry \/ e.bucketKey # w.BucketKey
                                THEN 1 ELSE e.count + 1
               /\ Entry(backend, Stores', key) =
                      [count |-> last'.count, bucketKey |-> w.BucketKey]
               /\ backend = "tiered" =>
                      MemEntry(mem', key).bucketKey = w.BucketKey]_vars

\* C6 witness: an Increment returned 1 for a key that held count 2 in
\* another bucket (two Increments in bucket A, then one in bucket B).
C6_Witness ==
    /\ last.op = "Increment"
    /\ last.err = "nil"
    /\ last.count = 1
    /\ last.before.count = 2
    /\ last.before.bucketKey # last.bucketKey

\* C7: in every backend, once a Reset of a key has succeeded, and until
\* an Increment of that key succeeds, every successful Get of the key
\* returns 0 whatever the bucket key and the first successful Increment
\* returns 1; a Reset leaves the entries of the other keys as they were.
C7_ResetClears ==
    [][\A key \in Keys :
         /\ \A kind \in StoreKinds :
               /\ (SGet(key, kind) /\ wasReset[key] >= 0
                      /\ last'.err = "nil") => last'.count = 0
               /\ (SIncrement(key, kind) /\ wasReset[key] >= 0
                      /\ last'.err = "nil") => last'.count = 1
         /\ SReset(key) =>
               /\ last'.err = "nil" =>
                     \A kind \in StoreKinds :
                       StoreGet(backend, Stores', key, WindowOf(kind, now),
                                up).count = 0
               /\ \A other \in Keys \ {key} :
                     /\ MemEntry(mem', other) = MemEntry(mem, other)
                     /\ SqlEntry(db', other) = SqlEntry(db, other)
                     /\ RedisEntry(rds', other) = RedisEntry(rds, other)]_vars

\* C7 witness: a Reset wiped a positive count of the key, another key still
\* holds its count, and the next Increment of the key returned 1.
C7_Witness ==
    /\ last.op = "Increment"
    /\ last.err = "nil"
    /\ last.afterReset = 1
    /\ last.count = 1
    /\ \E other \in Keys \ {last.key} :
          Entry(backend, Stores, other).count > 0

\* C8 as claimed: in every backend, Tiered included, a Get leaves the whole
\* store state (both tiers) as it was, and, the backend answering, returns
\* without error the stored count when the stored bucket key is the
\* supplied one and 0 otherwise.
C8_GetNeverMutates ==
    [][\A key \in Keys, kind \in StoreKinds :
         SGet(key, kind) =>
            /\ Stores' = Stores
            /\ up => /\ last'.err = "nil"
                     /\ last'.count =
                          CountIn(Entry(backend, Stores, key),
                                  BucketKey(kind, now))]_vars

\* C8 as amended: a Get never changes the SQLite rows or the Redis hashes.
\* For Memory, SQLite and Redis it changes nothing at all and, the backend
\* answering, returns without error the stored count for the bucket key or
\* 0.  The Tiered Get returns the memory tier's count for the bucket when it
\* is positive, changing nothing; otherwise it returns the persistent
\* tier's count for the bucket and, when that is positive, writes exactly
\* that count and the supplied bucket key into the memory tier's entry of
\* the key (and changes nothing else); when the persistent tier does not
\* answer it fails and changes nothing.
C8_GetMutatesOnlyByBackfill ==
    [][\A key \in Keys, kind \in StoreKinds :
         SGet(key, kind) =>
            LET bk == BucketKey(kind, now)
                mc == CountIn(MemEntry(mem, key), bk)
                dc == CountIn(SqlEntry(db, key), bk)
            IN /\ db' = db
               /\ rds' = rds
               /\ backend # "tiered" =>
                     /\ mem' = mem
                     /\ (up \/ backend = "memory") =>
                           /\ last'.err = "nil"
                           /\ last'.count =
                                CountIn(Entry(backend, Stores, key), bk)
               /\ (backend = "tiered" /\ mc > 0) =>
                     /\ mem' = mem
                     /\ last'.err = "nil"
                     /\ last'.count = mc
               /\ (backend = "tiered" /\ mc = 0 /\ up) =>
                     /\ last'.err = "nil"
                     /\ last'.count = dc
                     /\ mem' = IF dc > 0
                               THEN Put(mem, key, [count |-> dc,
                                                   bucketKey |-> bk])
                               ELSE mem
               /\ (backend = "tiered" /\ mc = 0 /\ ~up) =>
                     /\ last'.err # "nil"
                     /\ mem' = mem]_vars

\* C8 witness: a Tiered Get missed in the memory tier, returned the
\* persistent count 2 and left it in the memory tier.
C8_Witness ==
    /\ backend = "tiered"
    /\ last.op = "Get"
    /\ last.err = "nil"
    /\ last.cached = 0
    /\ last.count = 2
    /\ MemEntry(mem, last.key) =
          [count |-> 2, bucketKey |-> last.bucketKey]

\* C10 as claimed: every successful Get of a TieredStore returns exactly
\* what the persistent tier holds for the key and bucket, also when the
\* TieredStore was constructed over a persistent store that already held a
\* count and was incremented before being read.
C10_TieredGetIsDurableGet ==
    (backend = "tiered" /\ last.op = "Get" /\ last.err = "nil") =>
        last.count = CountIn(last.before, last.bucketKey)

\* C12: a TieredStore Increment calls the persistent tier first: when that
\* call fails, the Increment fails with its error and neither tier
\* changes; when it succeeds, the Increment returns the persistent tier's
\* count whatever the memory tier holds, the persistent tier has changed
\* as by exactly one Increment of the key in the window, and the memory
\* tier as by exactly one Increment of the same key in the same window.
C12_TieredIncrementWriteThrough ==
    [][\A key \in Keys, kind \in StoreKinds :
         (SIncrement(key, kind) /\ backend = "tiered") =>
            LET w == WindowOf(kind, now)
                p == SqlIncrement(db, key, w, up)
            IN /\ last'.err = p.err
               /\ p.err # "nil" => (db' = db /\ mem' = mem)
               /\ p.err = "nil" =>
                     /\ last'.count = p.count
                     /\ db' = p.rows
                     /\ mem' = MemIncrement(mem, key, w).buckets
                     /\ SqlEntry(db', key).bucketKey = w.BucketKey
                     /\ MemEntry(mem', key).bucketKey = w.BucketKey]_vars

\* C12 witness: a Tiered Increment returned the persistent count 2 while
\* the memory tier, emptied by a restart, came to hold count 1 for the
\* same bucket key.
C12_Witness ==
    /\ backend = "tiered"
    /\ last.op = "Increment"
    /\ last.err = "nil"
    /\ last.count = 2
    /\ SqlEntry(db, last.key) = [count |-> 2, bucketKey |-> last.bucketKey]
    /\ MemEntry(mem, last.key) = [count |-> 1, bucketKey |-> last.bucketKey]

-----------------------------------------------------------------------------
(* The Limiter: an ordered list of resources over one store, driven by one *)
(* caller, one call at a time.                                             *)

Block == 0
BlockWithQueue == 1
LogOnly == 2

Resource(name, pattern, limit, window, strategy) ==
    [Name |-> name, Pattern |-> pattern, Limit |-> limit, Window |-> window,
     Strategy |-> strategy]

\* The resources the caller registers, each at most once.  Two of them
\* share the name r1; the catch-all one is monthly.
ResourcePool ==
    { Resource("r1", <<"p", "/", "*">>, 1, PerMinute, LogOnly),
      Resource("r2", <<"*">>, 1, PerMonth, Block),
      Resource("r1", <<"g", "/", "*">>, 2, PerMinute, BlockWithQueue) }

\* The URLs the caller checks: http-like URLs of the hosts p and g, and one
\* that url.Parse rejects.
URLs ==
    { <<"h", ":", "/", "/", "p", "/", "v">>,
      <<"h", ":", "/", "/", "g", "/", "x">>,
      <<"h", ":", "/", "/", "p", "/", "%">> }

\* matchURL of the checked URLs against the registered patterns, computed
\* once.
Matches ==
    [rawURL \in URLs, pattern \in {r.Pattern : r \in ResourcePool} |->
        matchURL(rawURL, pattern)]

\* FirstMatch that takes the last matching resource.
LastMatch(rs, rawURL) ==
    LET hits == {i \in 1..Len(rs) : Matches[rawURL, rs[i].Pattern]}
    IN IF hits = {} THEN 0 ELSE CHOOSE i \in hits : \A j \in hits : i >= j

\* FirstMatch that charges the first resource when nothing matches.
FirstMatchOrFirst(rs, rawURL) ==
    LET hits == {i \in 1..Len(rs) : Matches[rawURL, rs[i].Pattern]}
    IN IF hits = {} THEN (IF Len(rs) > 0 THEN 1 ELSE 0)
       ELSE CHOOSE i \in hits : \A j \in hits : i <= j

\* The least of a set of indices, 0 for the empty set.
FirstOf(hits) ==
    IF hits = {} THEN 0 ELSE CHOOSE i \in hits : \A j \in hits : i <= j

\* The loop of Check and its continue: the index of the first resource of
\* rs whose pattern matches rawURL, 0 when the loop falls through.
FirstMatch(rs, rawURL) ==
    FirstOf({i \in 1..Len(rs) : Matches[rawURL, rs[i].Pattern]})

\* Decide that invokes the callback only for a LogOnly resource.
DecideCallbackLogOnly(r, current, w, cb) ==
    IF current > r.Limit /\ r.Strategy \in {Block, BlockWithQueue}
    THEN [err |-> "limit", Current |-> current,
          resetAt |-> w.BucketStart + w.Duration, fired |-> FALSE,
          notified |-> <<>>]
    ELSE [err |-> "nil", Current |-> 0, resetAt |-> 0,
          fired |-> cb /\ current > r.Limit,
          notified |-> IF cb /\ current > r.Limit
                       THEN <<[Resource |-> r, Current |-> current]>>
                       ELSE <<>>]

\* The invocations l.onLimitReached(r, current) of one Check.
Notified(r, current, fired) ==
    IF fired THEN <<[Resource |-> r, Current |-> current]>> ELSE <<>>

\* What Check does with the count current that Increment returned for the
\* resource r in the window w: err is "nil" (allow) or "limit" (a
\* LimitExceededError with Resource r, Current and resetAt); fired whether
\* the callback ran, notified with what arguments.
Decide(r, current, w, cb) ==
    LET allow(fired) ==
            [err |-> "nil", Current |-> 0, resetAt |-> 0, fired |-> fired,
             notified |-> Notified(r, current, fired)]
        deny ==
            [err |-> "limit", Current |-> current,
             resetAt |-> w.BucketStart + w.Duration, fired |-> cb,
             notified |-> Notified(r, current, cb)]
    IN IF current > r.Limit
       THEN CASE r.Strategy = Block -> deny
              [] r.Strategy = BlockWithQueue -> deny
              [] r.Strategy = LogOnly -> allow(cb)
              [] OTHER -> allow(cb)
       ELSE allow(FALSE)

\* A Check that lets the request through when the store fails.
CheckCountedFailOpen(r, i, w, cb, inc) ==
    [S |-> inc.S, res |-> i, count |-> inc.count,
     calls |-> <<[op |-> "Increment", key |-> r.Name,
                  bucketKey |-> w.BucketKey]>>]
    @@ IF inc.err # "nil"
       THEN [err |-> "nil", Current |-> 0, resetAt |-> 0, fired |-> FALSE,
             notified |-> <<>>]
       ELSE Decide(r, inc.count, w, cb)

\* Check once store.Increment has returned inc for the resource r, the i-th
\* registered, in the window w.
CheckCounted(r, i, w, cb, inc) ==
    [S |-> inc.S, res |-> i, count |-> inc.count,
     calls |-> <<[op |-> "Increment", key |-> r.Name,
                  bucketKey |-> w.BucketKey]>>]
    @@ IF inc.err # "nil"
       THEN [err |-> "store", Current |-> 0, resetAt |-> 0, fired |-> FALSE,
             notified |-> <<>>]
       ELSE Decide(r, inc.count, w, cb)

\* The loop body of Check for the matching resource r, the i-th registered.
CheckResource(r, i, w, cb, b, S, ok) ==
    CheckCounted(r, i, w, cb, StoreIncrement(b, S, r.Name, w, now, ok))

\* Check, the loop having stopped at the i-th resource (0: fallen through).
CheckMatched(rs, cb, b, S, i, ok) ==
    IF i = 0
    THEN [S |-> S, err |-> "nil", res |-> 0, count |-> 0, Current |-> 0,
          resetAt |-> 0, fired |-> FALSE, notified |-> <<>>, calls |-> <<>>]
    ELSE CheckResource(rs[i], i, WindowNow(rs[i].Window), cb, b, S, ok)

\* Limiter.Check over the resources rs, the callback being set or not (cb),
\* on the backend b in state S.  err is "nil", "limit" or "store" (the store
\* failed); res is the index of the resource charged, 0 if none; count is
\* what store.Increment returned; calls are the store calls made.
Check(rs, cb, b, S, rawURL, ok) ==
    CheckMatched(rs, cb, b, S, FirstMatch(rs, rawURL), ok)

\* GetUsage once store.Get has returned g.
UsageRead(name, w, g) ==
    [S |-> g.S, count |-> g.count,
     err |-> IF g.err = "nil" THEN "nil" ELSE "store",
     calls |-> <<[op |-> "Get", key |-> name, bucketKey |-> w.BucketKey]>>]

\* GetUsage for the resource r.
UsageOf(r, w, b, S, ok) == UsageRead(r.Name, w, StoreGet(b, S, r.Name, w, ok))

\* GetUsage, the loop having stopped at the i-th resource (0: not found).
UsageNamed(rs, b, S, i, ok) ==
    IF i = 0
    THEN [S |-> S, count |-> 0, err |-> "notfound", calls |-> <<>>]
    ELSE UsageOf(rs[i], WindowNow(rs[i].Window), b, S, ok)

\* Limiter.GetUsage: the store's Get for the first resource named name.
GetUsage(rs, b, S, name, ok) ==
    UsageNamed(rs, b, S, FirstOf({i \in 1..Len(rs) : rs[i].Name = name}), ok)

\* ResetUsage that reports success without calling the store.
ResetUsageKeepsCounter(b, S, name, ok) == [S |-> S, err |-> "nil"]

\* Limiter.ResetUsage: the store's Reset, whether or not name is registered.
ResetUsage(b, S, name, ok) ==
    LET r == StoreReset(b, S, name, ok)
    IN [S |-> r.S, err |-> IF r.err = "nil" THEN "nil" ELSE "store"]

\* charged (history): for a resource name, the bucket key of the last Check
\* charged to it whose store call succeeded, and how many such Checks that
\* bucket has seen since the last successful Reset of the name.
Ordinal(name, bucketKey) ==
    IF name \in DOMAIN charged /\ charged[name].bucketKey = bucketKey
    THEN charged[name].n + 1 ELSE 1

\* The Checks charged to name in the current bucket of a resource of that
\* name since the name's last Reset, 0 when no resource has the name.
ChargedNow(name) ==
    IF /\ name \in DOMAIN charged
       /\ \E i \in 1..Len(resources) :
             /\ resources[i].Name = name
             /\ WindowNow(resources[i].Window).BucketKey =
                   charged[name].bucketKey
    THEN charged[name].n ELSE 0

\* last, for the Limiter's caller: the call (op, url or name), what it
\* returned, and for a Check: ord and unique as explained at LCheck, and
\* afterReset, whether the call just before it was a successful ResetUsage
\* of the charged name that found a Block resource of that name over its
\* limit.  For a ResetUsage ord is ChargedNow of the name before the call.
NoCheck == [op |-> "none", url |-> <<>>, name |-> "", err |-> "nil",
            res |-> 0, count |-> 0, Current |-> 0, resetAt |-> 0,
            fired |-> FALSE, notified |-> <<>>, calls |-> <<>>,
            ord |-> 0, unique |-> FALSE, afterReset |-> FALSE]

\* The Limiter is built mid-minute, over a store that answers.
Init ==
    /\ backend \in Backends
    /\ onLimitReached \in BOOLEAN
    /\ resources = <<>>
    /\ mem = NewMemoryStore
    /\ db = EmptyMap
    /\ rds = EmptyMap
    /\ up = TRUE
    /\ clk = 2
    /\ last = NoCheck
    /\ wasReset = [k \in Keys |-> -1]
    /\ charged = EmptyMap
    /\ Idle

Register(r) ==
    /\ \A i \in 1..Len(resources) : resources[i] # r
    /\ resources' = Append(resources, r)
    /\ UNCHANGED <<conc, backend, mem, db, rds, up, clk, last, wasReset,
                   onLimitReached, charged>>

\* One Check.  ord is the number of this Check among those charged to the
\* resource in the bucket; unique whether no other registered resource has
\* the resource's name.
LCheck(rawURL) ==
    \E c \in {Check(resources, onLimitReached, backend, Stores, rawURL, up)} :
    \E ord \in {IF c.res = 0 THEN 0
                ELSE Ordinal(resources[c.res].Name, c.calls[1].bucketKey)} :
       /\ ord <= MaxCount + 1
       /\ Apply(c.S)
       /\ charged' = IF c.res > 0 /\ c.err # "store"
                     THEN Put(charged, resources[c.res].Name,
                              [bucketKey |-> c.calls[1].bucketKey, n |-> ord,
                               restarted |->
                                  /\ ord > 1
                                  /\ charged[resources[c.res].Name].restarted])
                     ELSE charged
       /\ last' = [op |-> "Check", url |-> rawURL, name |-> "",
                   err |-> c.err, res |-> c.res, count |-> c.count,
                   Current |-> c.Current, resetAt |-> c.resetAt,
                   fired |-> c.fired, notified |-> c.notified,
                   calls |-> c.calls, ord |-> ord,
                   unique |-> /\ c.res > 0
                              /\ \A j \in 1..Len(resources) :
                                    j # c.res =>
                                       resources[j].Name #
                                          resources[c.res].Name,
                   afterReset |-> /\ c.res > 0
                                  /\ last.op = "ResetUsage"
                                  /\ last.err = "nil"
                                  /\ last.name = resources[c.res].Name
                                  /\ resources[c.res].Strategy = Block
                                  /\ last.ord > resources[c.res].Limit]
       /\ UNCHANGED <<conc, backend, up, clk, wasReset, resources,
                      onLimitReached>>

LGetUsage(name) ==
    \E g \in {GetUsage(resources, backend, Stores, name, up)} :
       /\ Apply(g.S)
       /\ last' = [NoCheck EXCEPT !.op = "GetUsage", !.name = name,
                                  !.err = g.err, !.count = g.count,
                                  !.calls = g.calls]
       /\ UNCHANGED <<conc, backend, up, clk, wasReset, limiter>>

LResetUsage(name) ==
    \E r \in {ResetUsage(backend, Stores, name, up)} :
       /\ Apply(r.S)
       /\ charged' = IF r.err = "nil" THEN Del(charged, name) ELSE charged
       /\ last' = [NoCheck EXCEPT !.op = "ResetUsage", !.name = name,
                                  !.err = r.err, !.ord = ChargedNow(name)]
       /\ UNCHANGED <<conc, backend, up, clk, wasReset, resources,
                      onLimitReached>>

Next ==
    \/ \E r \in ResourcePool : Register(r)
    \/ \E rawURL \in URLs : LCheck(rawURL)
    \/ \E name \in Keys : LGetUsage(name)
    \/ \E name \in Keys : LResetUsage(name)
    \/ Tick

Spec == Init /\ [][Next]_vars

-----------------------------------------------------------------------------
(* Claims about Limiter.Check, checked under Spec *)

\* C1 as claimed: for a resource whose name no other registered resource
\* has, the i-th Check charged to it in one bucket (the store answering, no
\* Reset in between) is allowed when i <= Limit; when i > Limit it fails
\* with the limit-exceeded error under Block and BlockWithQueue, and under
\* LogOnly it is allowed and the limit-reached callback, if one is set,
\* has fired.
C1_SequentialChecks ==
    (last.op = "Check" /\ last.unique /\ last.err # "store") =>
        LET r == resources[last.res] IN
        /\ last.ord <= r.Limit => last.err = "nil"
        /\ (last.ord > r.Limit /\ r.Strategy \in {Block, BlockWithQueue}) =>
              last.err = "limit"
        /\ (last.ord > r.Limit /\ r.Strategy = LogOnly) =>
              /\ last.err = "nil"
              /\ onLimitReached => last.fired

\* C4: a Check whose URL matches some registered resource makes exactly one
\* store call, the Increment of the name of the first matching resource in
\* registration order with that resource's window; the store changes as by
\* that one Increment, so no entry of another name changes; and the outcome
\* is decided by the returned count and the first match's Limit and
\* Strategy alone.
C4_OneIncrementFirstMatch ==
    [][\A rawURL \in URLs :
         (/\ LCheck(rawURL)
          /\ \E i \in 1..Len(resources) :
                matchURL(rawURL, resources[i].Pattern)) =>
            LET first == CHOOSE i \in 1..Len(resources) :
                            /\ matchURL(rawURL, resources[i].Pattern)
                            /\ \A j \in 1..(i - 1) :
                                  ~matchURL(rawURL, resources[j].Pattern)
                r     == resources[first]
                inc   == StoreIncrement(backend, Stores, r.Name,
                                        WindowOf(r.Window, now), now, up)
            IN /\ last'.res = first
               /\ last'.calls = <<[op |-> "Increment", key |-> r.Name,
                                   bucketKey |-> BucketKey(r.Window, now)]>>
               /\ Stores' = inc.S
               /\ \A name \in Keys \ {r.Name} :
                     Entry(backend, Stores', name) =
                         Entry(backend, Stores, name)
               /\ last'.err =
                     IF inc.err # "nil" THEN "store"
                     ELSE IF inc.count > r.Limit
                             /\ r.Strategy \in {Block, BlockWithQueue}
                          THEN "limit" ELSE "nil"]_vars

\* C4 witness: a Check was charged to a resource registered before another
\* resource of another name that matches the URL too, and that later
\* resource's name has no entry in the store.
C4_Witness ==
    /\ last.op = "Check"
    /\ last.res > 0
    /\ Len(last.calls) = 1
    /\ \E j \in (last.res + 1)..Len(resources) :
          /\ matchURL(last.url, resources[j].Pattern)
          /\ resources[j].Name # resources[last.res].Name
          /\ Entry(backend, Stores, resources[j].Name) = NoEntry

\* C5: a Check whose URL matches no registered resource is allowed, makes
\* no store call, fires no callback and leaves the store and every count
\* as they were.
C5_UnmatchedAllows ==
    [][\A rawURL \in URLs :
         (/\ LCheck(rawURL)
          /\ \A i \in 1..Len(resources) :
                ~matchURL(rawURL, resources[i].Pattern)) =>
            /\ last'.err = "nil"
            /\ last'.res = 0
            /\ last'.calls = <<>>
            /\ ~last'.fired
            /\ Stores' = Stores
            /\ charged' = charged]_vars

\* C5 witness: a Check of a URL that no registered resource matches was
\* allowed while a registered resource's count is over its limit.
C5_Witness ==
    /\ last.op = "Check"
    /\ last.err = "nil"
    /\ last.calls = <<>>
    /\ Len(resources) > 0
    /\ \A i \in 1..Len(resources) :
          ~matchURL(last.url, resources[i].Pattern)
    /\ \E i \in 1..Len(resources) :
          CountIn(Entry(backend, Stores, resources[i].Name),
                  BucketKey(resources[i].Window, now)) > resources[i].Limit

-----------------------------------------------------------------------------
(* Concurrent Checks over the Memory store: each goroutine makes one Check *)
(* of a Limiter with one Block resource, all within one bucket.  Check     *)
(* holds l.mu for reading, which excludes only Register; the steps that    *)
(* other goroutines can see are those of MemoryStore.Increment.            *)

ConcInit ==
    /\ backend = "memory"
    /\ onLimitReached = FALSE
    /\ \E limit \in 1..MaxCount :
          resources = <<Resource("r2", <<"*">>, limit, PerMinute, Block)>>
    /\ mem = NewMemoryStore
    /\ db = EmptyMap
    /\ rds = EmptyMap
    /\ up = TRUE
    /\ clk = 1
    /\ last = NoCheck
    /\ wasReset = [k \in Keys |-> -1]
    /\ charged = EmptyMap
    /\ Idle

ConcFrame ==
    UNCHANGED <<backend, db, rds, up, clk, last, wasReset, limiter, lk, hist>>

\* The resource a goroutine's Check is charged to, and its window.
Charged(p) == resources[loc[p].res]

ChargedWindow(p) == WindowNow(Charged(p).Window)

\* Check up to the call of store.Increment: the first match, if any.
CBegin(p, rawURL) ==
    LET i == FirstMatch(resources, rawURL) IN
    /\ pc[p] = "idle"
    /\ loc' = [loc EXCEPT ![p] = [op |-> "Check", res |-> i, count |-> 0,
                                  err |-> "nil"]]
    /\ pc' = [pc EXCEPT ![p] = IF i = 0 THEN "done" ELSE "lock"]
    /\ UNCHANGED <<mem, mu>>
    /\ ConcFrame

\* m.mu.Lock()
CLock(p) ==
    /\ pc[p] = "lock"
    /\ CanLock(mu)
    /\ mu' = p
    /\ pc' = [pc EXCEPT ![p] = "load"]
    /\ UNCHANGED <<mem, loc>>
    /\ ConcFrame

\* The lookup, and the read of b.count.
CLoad(p) ==
    LET l == MemLoad(mem, Charged(p).Name, ChargedWindow(p)) IN
    /\ pc[p] = "load"
    /\ mem' = l.buckets
    /\ loc' = [loc EXCEPT ![p].count = l.count]
    /\ pc' = [pc EXCEPT ![p] = "store"]
    /\ UNCHANGED mu
    /\ ConcFrame

\* The write of b.count, and the count Increment returns.
CStore(p) ==
    /\ pc[p] = "store"
    /\ mem' = MemStore(mem, Charged(p).Name, ChargedWindow(p), loc[p].count)
    /\ loc' = [loc EXCEPT ![p].count = loc[p].count + 1]
    /\ pc' = [pc EXCEPT ![p] = "unlock"]
    /\ UNCHANGED mu
    /\ ConcFrame

\* The deferred m.mu.Unlock()
CUnlock(p) ==
    /\ pc[p] = "unlock"
    /\ mu' = 0
    /\ pc' = [pc EXCEPT ![p] = "decide"]
    /\ UNCHANGED <<mem, loc>>
    /\ ConcFrame

\* Check after store.Increment returned.
CDecide(p) ==
    LET d == Decide(Charged(p), loc[p].count, ChargedWindow(p),
                    onLimitReached) IN
    /\ pc[p] = "decide"
    /\ loc' = [loc EXCEPT ![p].err = d.err]
    /\ pc' = [pc EXCEPT ![p] = "done"]
    /\ UNCHANGED <<mem, mu>>
    /\ ConcFrame

ConcNext ==
    \E p \in Procs :
       \/ \E rawURL \in URLs : CBegin(p, rawURL)
       \/ CLock(p)
       \/ CLoad(p)
       \/ CStore(p)
       \/ CUnlock(p)
       \/ CDecide(p)

SpecConc == ConcInit /\ [][ConcNext]_vars

Min(a, b) == IF a <= b THEN a ELSE b

\* C2: among concurrent Checks charged to one Block resource with limit L
\* over the Memory store in one bucket, the counts that Increment has
\* returned so far are 1..k without gap or duplicate; and once all the
\* goroutines have returned, N of them having been charged, exactly
\* min(N, L) were allowed and N - min(N, L) got the limit-exceeded error.
C2_ConcurrentChecks ==
    LET matched  == {p \in Procs : loc[p].op = "Check" /\ loc[p].res > 0}
        returned == {p \in matched : pc[p] \in {"unlock", "decide", "done"}}
        N        == Cardinality(matched)
        L        == resources[1].Limit
    IN /\ \A p, q \in returned : p # q => loc[p].count # loc[q].count
       /\ {loc[p].count : p \in returned} = 1..Cardinality(returned)
       /\ (\A p \in Procs : pc[p] = "done") =>
             /\ Cardinality({p \in matched : loc[p].err = "nil"}) = Min(N, L)
             /\ Cardinality({p \in matched : loc[p].err = "limit"}) =
                   N - Min(N, L)

\* C2 witness: every goroutine's Check was charged to the resource, whose
\* limit is 2, all have returned, and more were made than the limit allows.
C2_Witness ==
    /\ \A p \in Procs : pc[p] = "done" /\ loc[p].res = 1
    /\ resources[1].Limit = 2
    /\ Cardinality({p \in Procs : loc[p].err = "nil"}) = 2
    /\ Cardinality({p \in Procs : loc[p].err = "limit"}) = NumProcs - 2

-----------------------------------------------------------------------------
(* Concurrent Increments of the SQLite store, one per goroutine.  Each     *)
(* runs on a connection of its own from the sql.DB pool, over one database *)
(* file in SQLite's default rollback-journal mode with no busy timeout:    *)
(* BEGIN takes no lock, the SELECT takes SHARED and the transaction keeps  *)
(* it, the INSERT or UPDATE takes RESERVED and fails with SQLITE_BUSY      *)
(* while another connection holds it, COMMIT needs every other             *)
(* connection's SHARED gone and fails with SQLITE_BUSY otherwise.  A       *)
(* statement that fails makes Increment return the error, and the          *)
(* transaction ends without effect.                                        *)

\* A SELECT whose lock ends with the statement, as outside a transaction.
AcquireSharedForStatement(l, p) == l

\* The locks once p's SELECT inside its transaction has run.
AcquireShared(l, p) == [l EXCEPT !.shared = @ \cup {p}]

\* Whether p's INSERT or UPDATE gets the RESERVED lock.
CanReserve(l, p) == l.reserved \in {0, p}

\* Whether p's COMMIT gets the EXCLUSIVE lock.
CanCommit(l, p) == l.shared \ {p} = {}

\* The locks once p's transaction has ended.
Release(l, p) ==
    [shared |-> l.shared \ {p},
     reserved |-> IF l.reserved = p THEN 0 ELSE l.reserved]

SqlInit ==
    /\ backend = "sqlite"
    /\ onLimitReached = FALSE
    /\ resources = <<>>
    /\ mem = NewMemoryStore
    /\ db = EmptyMap
    /\ rds = EmptyMap
    /\ up = TRUE
    /\ clk = 1
    /\ last = NoCall
    /\ wasReset = [k \in Keys |-> -1]
    /\ charged = EmptyMap
    /\ Idle

SqlFrame ==
    UNCHANGED <<backend, mem, rds, up, clk, last, wasReset, limiter, mu>>

\* The window of every call: the current minute.
SqlWindow == WindowNow(PerMinute)

\* s.db.BeginTx(ctx, nil)
TBegin(p, key) ==
    /\ pc[p] = "idle"
    /\ Len(hist[key]) < MaxCount
    /\ loc' = [loc EXCEPT ![p] = [op |-> "Increment", key |-> key,
                                  found |-> FALSE, row |-> <<>>,
                                  next |-> <<>>, count |-> 0,
                                  err |-> "nil"]]
    /\ pc' = [pc EXCEPT ![p] = "begun"]
    /\ UNCHANGED <<db, lk, hist>>
    /\ SqlFrame

\* SELECT count, bucket_key FROM erl_counters WHERE key = ?
TSelect(p) ==
    LET key   == loc[p].key
        found == key \in DOMAIN db IN
    /\ pc[p] = "begun"
    /\ lk' = AcquireShared(lk, p)
    /\ loc' = [loc EXCEPT ![p].found = found,
                          ![p].row = IF found THEN db[key] ELSE <<>>]
    /\ pc' = [pc EXCEPT ![p] = "read"]
    /\ UNCHANGED <<db, hist>>
    /\ SqlFrame

\* The INSERT or the UPDATE of the row computed from what the SELECT found.
TWrite(p) ==
    /\ pc[p] = "read"
    /\ IF CanReserve(lk, p)
       THEN /\ lk' = [lk EXCEPT !.reserved = p]
            /\ loc' = [loc EXCEPT ![p].next =
                          SqlNextRow(loc[p].found, loc[p].row, SqlWindow)]
            /\ pc' = [pc EXCEPT ![p] = "written"]
       ELSE /\ lk' = Release(lk, p)
            /\ loc' = [loc EXCEPT ![p].err = "busy"]
            /\ pc' = [pc EXCEPT ![p] = "done"]
    /\ UNCHANGED <<db, hist>>
    /\ SqlFrame

\* tx.Commit(), and the count Increment returns with it.
TCommit(p) ==
    LET key == loc[p].key IN
    /\ pc[p] = "written"
    /\ IF CanCommit(lk, p)
       THEN /\ db' = Put(db, key, loc[p].next)
            /\ hist' = [hist EXCEPT ![key] = Append(@, loc[p].next.count)]
            /\ loc' = [loc EXCEPT ![p].count = loc[p].next.count]
       ELSE /\ loc' = [loc EXCEPT ![p].err = "busy"]
            /\ UNCHANGED <<db, hist>>
    /\ lk' = Release(lk, p)
    /\ pc' = [pc EXCEPT ![p] = "done"]
    /\ SqlFrame

SqlNext ==
    \E p \in Procs :
       \/ \E key \in Keys : TBegin(p, key)
       \/ TSelect(p)
       \/ TWrite(p)
       \/ TCommit(p)

SpecSql == SqlInit /\ [][SqlNext]_vars

\* C3: under every interleaving of SQLite Increments in one bucket, the
\* committed Increments of a key returned the counts 1, 2, 3, ... in commit
\* order, each once, and the stored count of the key is the number of its
\* committed Increments; so two transactions that read the same count never
\* both commit.
C3_NoLostUpdate ==
    \A key \in Keys :
       /\ \A i \in 1..Len(hist[key]) : hist[key][i] = i
       /\ SqlEntry(db, key).count = Len(hist[key])
       /\ \A p, q \in Procs :
             (/\ p # q
              /\ pc[p] = "done" /\ loc[p].op = "Increment"
              /\ pc[q] = "done" /\ loc[q].op = "Increment"
              /\ loc[p].key = key /\ loc[q].key = key
              /\ loc[p].err = "nil" /\ loc[q].err = "nil") =>
                loc[p].count # loc[q].count

\* C3 witness: two transactions read the same row of a key, with count 1;
\* one committed and returned 2, the other failed with SQLITE_BUSY.
C3_Witness ==
    \E p, q \in Procs :
       /\ pc[p] = "done" /\ pc[q] = "done"
       /\ loc[p].op = "Increment" /\ loc[q].op = "Increment"
       /\ loc[p].key = loc[q].key
       /\ loc[p].found /\ loc[q].found
       /\ loc[p].row = loc[q].row
       /\ loc[p].row.count = 1
       /\ loc[p].err = "nil" /\ loc[p].count = 2
       /\ loc[q].err = "busy"
       /\ hist[loc[p].key] = <<1, 2>>

-----------------------------------------------------------------------------
(* Concurrent calls of one TieredStore created over an empty SQLite store. *)
(* A call of a tier is one step (the MemoryStore holds its mutex for the   *)
(* whole call, a SQLite call that meets no other transaction runs alone);  *)
(* between the two tiers' calls other goroutines run.                      *)

TieredInit ==
    /\ backend = "tiered"
    /\ onLimitReached = FALSE
    /\ resources = <<>>
    /\ mem = NewMemoryStore
    /\ db = EmptyMap
    /\ rds = EmptyMap
    /\ up = TRUE
    /\ clk = 1
    /\ last = NoCall
    /\ wasReset = [k \in Keys |-> -1]
    /\ charged = EmptyMap
    /\ Idle

TieredFrame ==
    UNCHANGED <<backend, rds, up, clk, last, wasReset, limiter, mu, lk, hist>>

\* The window of every call: the current minute.
TieredWindow == WindowNow(PerMinute)

\* A goroutine makes its call: Increment, Get or Reset.
XCall(p, op, key) ==
    /\ pc[p] = "idle"
    /\ op = "Increment" =>
          CountIn(SqlEntry(db, key), TieredWindow.BucketKey) < MaxCount
    /\ loc' = [loc EXCEPT ![p] = [op |-> op, key |-> key, count |-> 0,
                                  err |-> "nil"]]
    /\ pc' = [pc EXCEPT ![p] = CASE op = "Increment" -> "persistent.Increment"
                                 [] op = "Get" -> "memory.Get"
                                 [] op = "Reset" -> "memory.Reset"]
    /\ UNCHANGED <<mem, db>>
    /\ TieredFrame

\* Increment: t.persistent.Increment(ctx, key, w)
XIncrementPersistent(p) ==
    LET r == SqlIncrement(db, loc[p].key, TieredWindow, up) IN
    /\ pc[p] = "persistent.Increment"
    /\ db' = r.rows
    /\ loc' = [loc EXCEPT ![p].count = r.count, ![p].err = r.err]
    /\ pc' = [pc EXCEPT ![p] = IF r.err # "nil" THEN "done"
                               ELSE "memory.Increment"]
    /\ UNCHANGED mem
    /\ TieredFrame

\* Increment: t.memory.Increment(ctx, key, w)
XIncrementMemory(p) ==
    /\ pc[p] = "memory.Increment"
    /\ mem' = MemIncrement(mem, loc[p].key, TieredWindow).buckets
    /\ pc' = [pc EXCEPT ![p] = "done"]
    /\ UNCHANGED <<db, loc>>
    /\ TieredFrame

\* Get: t.memory.Get(ctx, key, w)
XGetMemory(p) ==
    LET c == MemGet(mem, loc[p].key, TieredWindow) IN
    /\ pc[p] = "memory.Get"
    /\ loc' = [loc EXCEPT ![p].count = c]
    /\ pc' = [pc EXCEPT ![p] = IF c > 0 THEN "done" ELSE "persistent.Get"]
    /\ UNCHANGED <<mem, db>>
    /\ TieredFrame

\* Get: t.persistent.Get(ctx, key, w)
XGetPersistent(p) ==
    LET r == SqlGet(db, loc[p].key, TieredWindow, up) IN
    /\ pc[p] = "persistent.Get"
    /\ loc' = [loc EXCEPT ![p].count = r.count, ![p].err = r.err]
    /\ pc' = [pc EXCEPT ![p] = IF r.err = "nil" /\ r.count > 0
                               THEN "backfill" ELSE "done"]
    /\ UNCHANGED <<mem, db>>
    /\ TieredFrame

\* Get: the backfill of the memory tier under t.memory.mu
XGetBackfill(p) ==
    /\ pc[p] = "backfill"
    /\ mem' = Put(mem, loc[p].key,
                  [count |-> loc[p].count,
                   bucketKey |-> TieredWindow.BucketKey])
    /\ pc' = [pc EXCEPT ![p] = "done"]
    /\ UNCHANGED <<db, loc>>
    /\ TieredFrame

\* Reset: t.memory.Reset(ctx, key)
XResetMemory(p) ==
    /\ pc[p] = "memory.Reset"
    /\ mem' = MemReset(mem, loc[p].key)
    /\ pc' = [pc EXCEPT ![p] = "persistent.Reset"]
    /\ UNCHANGED <<db, loc>>
    /\ TieredFrame

\* Reset: t.persistent.Reset(ctx, key)
XResetPersistent(p) ==
    LET r == SqlReset(db, loc[p].key, up) IN
    /\ pc[p] = "persistent.Reset"
    /\ db' = r.rows
    /\ loc' = [loc EXCEPT ![p].err = r.err]
    /\ pc' = [pc EXCEPT ![p] = "done"]
    /\ UNCHANGED mem
    /\ TieredFrame

TieredNext ==
    \E p \in Procs :
       \/ \E op \in {"Increment", "Get", "Reset"}, key \in Keys :
             XCall(p, op, key)
       \/ XIncrementPersistent(p)
       \/ XIncrementMemory(p)
       \/ XGetMemory(p)
       \/ XGetPersistent(p)
       \/ XGetBackfill(p)
       \/ XResetMemory(p)
       \/ XResetPersistent(p)

SpecTiered == TieredInit /\ [][TieredNext]_vars

\* C9 as claimed: whenever no call of the TieredStore is in flight, for
\* each key the memory tier holds either no entry for the current bucket or
\* exactly the count the persistent tier holds for that bucket.
C9_TieredAtRest ==
    (\A p \in Procs : pc[p] \in {"idle", "done"}) =>
        \A key \in Keys :
           MemEntry(mem, key).bucketKey = TieredWindow.BucketKey =>
              MemEntry(mem, key).count =
                  CountIn(SqlEntry(db, key), TieredWindow.BucketKey)

-----------------------------------------------------------------------------
(* Memory loss: TieredStores created one after the other over one SQLite   *)
(* store that starts empty, as in TestTieredStorePersistentFallback.  The  *)
(* caller writes through the current TieredStore, replaces it by a fresh   *)
(* one (SRestart) and reads.  charged counts, per key, the Increments that *)
(* succeeded under the key's latest bucket key since its last successful   *)
(* Reset.                                                                  *)

FallbackInit ==
    /\ backend = "tiered"
    /\ mem = NewMemoryStore
    /\ db = EmptyMap
    /\ rds = EmptyMap
    /\ up = TRUE
    /\ clk = 1
    /\ last = NoCall @@ [fresh |-> FALSE]
    /\ wasReset = [k \in Keys |-> -1]
    /\ resources = <<>>
    /\ onLimitReached = FALSE
    /\ charged = EmptyMap
    /\ Idle

FallbackFrame ==
    UNCHANGED <<conc, backend, rds, up, clk, wasReset, resources,
                onLimitReached>>

\* The Increments written for key under bucketKey, as charged has them.
Written(key, bucketKey) ==
    IF key \in DOMAIN charged /\ charged[key].bucketKey = bucketKey
    THEN charged[key].n ELSE 0

\* fresh: whether the memory tier was empty when the call started.
FCalled(op, key, kind, w, count, err) ==
    Called(op, key, kind, w, count, err) @@ [fresh |-> mem = NewMemoryStore]

FIncrement(key, kind) ==
    \E w \in {WindowNow(kind)} :
    \E r \in {TieredIncrement(mem, db, key, w, up)} :
       /\ CountIn(SqlEntry(db, key), w.BucketKey) < MaxCount
       /\ mem' = r.memory
       /\ db' = r.rows
       /\ last' = FCalled("Increment", key, kind, w, r.count, r.err)
       /\ charged' = IF r.err = "nil"
                     THEN Put(charged, key,
                              [bucketKey |-> w.BucketKey,
                               n |-> Ordinal(key, w.BucketKey)])
                     ELSE charged
       /\ FallbackFrame

FGet(key, kind) ==
    \E w \in {WindowNow(kind)} :
    \E r \in {TieredGet(mem, db, key, w, up)} :
       /\ mem' = r.memory
       /\ last' = FCalled("Get", key, kind, w, r.count, r.err)
       /\ UNCHANGED <<db, charged>>
       /\ FallbackFrame

FReset(key) ==
    \E r \in {TieredReset(mem, db, key, up)} :
       /\ mem' = r.memory
       /\ db' = r.rows
       /\ last' = FCalled("Reset", key, "", [BucketKey |-> <<>>], 0, r.err)
       /\ charged' = IF r.err = "nil" THEN Del(charged, key) ELSE charged
       /\ FallbackFrame

FallbackNext ==
    \/ \E key \in Keys, kind \in StoreKinds : FIncrement(key, kind)
    \/ \E key \in Keys, kind \in StoreKinds : FGet(key, kind)
    \/ \E key \in Keys : FReset(key)
    \/ SRestart
    \/ STick
    \/ Outage

SpecFallback == FallbackInit /\ [][FallbackNext]_vars

\* C11: the first Get of a fresh TieredStore (empty memory tier) over a
\* SQLite store through which k Increments of the key were written under
\* the supplied bucket key returns exactly k, the persistent tier
\* answering; when k >= 1 it leaves in the memory tier exactly the entry
\* (count k, the supplied bucket key) for the key and nothing else, when
\* k = 0 it leaves the memory tier empty; the persistent tier is not
\* changed.
C11_FreshTieredGet ==
    [][\A key \in Keys, kind \in StoreKinds :
         (FGet(key, kind) /\ mem = NewMemoryStore /\ last'.err = "nil") =>
            LET bk == BucketKey(kind, now)
                k  == Written(key, bk)
            IN /\ last'.count = k
               /\ mem' = IF k >= 1
                         THEN Put(NewMemoryStore, key,
                                  [count |-> k, bucketKey |-> bk])
                         ELSE NewMemoryStore
               /\ db' = db]_vars

\* C11 witness: two Increments of a key were written, the TieredStore was
\* replaced by a fresh one, and its first Get returned 2 and left
\* (2, bucket key) as the memory tier's only entry.
C11_Witness ==
    /\ last.op = "Get"
    /\ last.fresh
    /\ last.err = "nil"
    /\ last.count = 2
    /\ Written(last.key, last.bucketKey) = 2
    /\ mem = Put(NewMemoryStore, last.key,
                 [count |-> 2, bucketKey |-> last.bucketKey])

-----------------------------------------------------------------------------
(* The Limiter across process restarts: a new Limiter is built over the    *)
(* same durable store with the same options and the same resources.  A     *)
(* MemoryStore does not outlive its process: for it a restart is Init.     *)

\* erl.New(WithStore(...)) and the same Registers again, over the store the
\* discarded Limiter used; NewTieredStore starts with an empty memory tier.
LRestart ==
    /\ backend # "memory"
    /\ mem' = NewMemoryStore
    /\ charged' = [k \in DOMAIN charged |->
                      [charged[k] EXCEPT !.restarted = TRUE]]
    /\ last' = [NoCheck EXCEPT !.op = "Restart"]
    /\ UNCHANGED <<conc, backend, db, rds, up, clk, wasReset, resources,
                   onLimitReached>>

RestartNext ==
    \/ Next
    \/ LRestart

SpecRestart == Init /\ [][RestartNext]_vars

\* C13 as claimed: over a durable store (SQLite or Redis, bare or behind a
\* TieredStore), the Checks charged to a Block resource under one bucket
\* key, the process having restarted between the first and the last of
\* them, are allowed only as long as their number, counted across the
\* restart, does not exceed the limit: so no more than Limit of them are
\* allowed.
C13_RestartKeepsCount ==
    (/\ last.op = "Check"
     /\ last.unique
     /\ last.err = "nil"
     /\ backend # "memory"
     /\ resources[last.res].Strategy = Block
     /\ charged[resources[last.res].Name].restarted) =>
        last.ord <= resources[last.res].Limit

-----------------------------------------------------------------------------
(* Error values.  The errors Check returns, and errors.Is over their       *)
(* Unwrap chains.                                                          *)

NilError == [type |-> "nil"]

\* var ErrLimitExceeded = errors.New("erl: rate limit exceeded")
ErrLimitExceeded ==
    [type |-> "errorString", text |-> "erl: rate limit exceeded"]

\* An error a store's backend returned.
BackendError == [type |-> "errorString", text |-> "backend"]

\* &LimitExceededError{Resource, Current, resetAt}
LimitExceededError(r, current, resetAt) ==
    [type |-> "LimitExceededError", Resource |-> r, Current |-> current,
     resetAt |-> resetAt]

\* fmt.Errorf("erl: store error: %w", err)
StoreError(err) ==
    [type |-> "wrapError", text |-> "erl: store error", err |-> err]

\* An Unwrap under which a LimitExceededError wraps nothing.
UnwrapWrappedOnly(e) == IF e.type = "wrapError" THEN e.err ELSE NilError

\* errors.Unwrap: the error's Unwrap method, nil when it has none.
Unwrap(e) ==
    CASE e.type = "LimitExceededError" -> ErrLimitExceeded
      [] e.type = "wrapError" -> e.err
      [] OTHER -> NilError

\* errors.Is(e, target)
RECURSIVE ErrorsIs(_, _)
ErrorsIs(e, target) ==
    IF e = NilError THEN FALSE
    ELSE IF e = target THEN TRUE
    ELSE ErrorsIs(Unwrap(e), target)

\* The error value of a Check over rs that ended as c records.
CheckError(rs, c) ==
    CASE c.err = "limit" -> LimitExceededError(rs[c.res], c.Current, c.resetAt)
      [] c.err = "store" -> StoreError(BackendError)
      [] OTHER -> NilError

-----------------------------------------------------------------------------
(* The HTTP transport: RoundTrip asks Check before it hands the request to *)
(* the base transport.                                                     *)

\* req.URL.String() of a URL with a scheme, a host and a path.
URLString(u) == u.Scheme \o <<":", "/", "/">> \o u.Host \o u.Path

\* The requests the client sends.
Requests ==
    { [Scheme |-> <<"h">>, Host |-> <<"p">>, Path |-> <<"/", "v">>],
      [Scheme |-> <<"h">>, Host |-> <<"g">>, Path |-> <<"/", "x">>] }

\* What the base transport answers when it is asked.
Responses == {"response", "error"}

\* A RoundTrip that holds a request back only for a limit-exceeded error.
ForwardUnlessLimit(c, req, resp) ==
    [trace |-> <<[op |-> "Check", url |-> URLString(req)]>>
                 \o IF c.err # "limit"
                    THEN <<[op |-> "base.RoundTrip", req |-> req]>>
                    ELSE <<>>,
     resp |-> IF c.err # "limit" THEN resp ELSE "none"] @@ c

\* RoundTrip once Check has returned c: the calls made, in order, and the
\* response returned ("none": nil, with Check's error).
Forward(c, req, resp) ==
    [trace |-> <<[op |-> "Check", url |-> URLString(req)]>>
                 \o IF c.err = "nil"
                    THEN <<[op |-> "base.RoundTrip", req |-> req]>>
                    ELSE <<>>,
     resp |-> IF c.err = "nil" THEN resp ELSE "none"] @@ c

\* transport.RoundTrip
RoundTrip(rs, cb, b, S, req, ok, resp) ==
    Forward(Check(rs, cb, b, S, URLString(req), ok), req, resp)

-----------------------------------------------------------------------------
(* The Limiter and its transport over a durable backend that can stop      *)
(* answering and resume.                                                   *)

LRoundTrip(req, resp) ==
    \E c \in {RoundTrip(resources, onLimitReached, backend, Stores, req, up,
                         resp)} :
    \E ord \in {IF c.res = 0 THEN 0
                ELSE Ordinal(resources[c.res].Name, c.calls[1].bucketKey)} :
       /\ ord <= MaxCount + 1
       /\ Apply(c.S)
       /\ charged' = IF c.res > 0 /\ c.err # "store"
                     THEN Put(charged, resources[c.res].Name,
                              [bucketKey |-> c.calls[1].bucketKey, n |-> ord,
                               restarted |-> FALSE])
                     ELSE charged
       /\ last' = [NoCheck EXCEPT !.op = "RoundTrip",
                                  !.url = URLString(req), !.err = c.err,
                                  !.res = c.res, !.count = c.count,
                                  !.Current = c.Current,
                                  !.resetAt = c.resetAt, !.fired = c.fired,
                                  !.notified = c.notified,
                                  !.calls = c.calls, !.ord = ord]
                  @@ [trace |-> c.trace, resp |-> c.resp]
       /\ UNCHANGED <<conc, backend, up, clk, wasReset, resources,
                      onLimitReached>>

FaultyNext ==
    \/ \E r \in ResourcePool : Register(r)
    \/ \E rawURL \in URLs : LCheck(rawURL)
    \/ \E req \in Requests, resp \in Responses : LRoundTrip(req, resp)
    \/ Tick
    \/ Outage

SpecFaulty == Init /\ [][FaultyNext]_vars

\* C14: a Check (made directly or by the transport) invokes the
\* limit-reached callback exactly once, with the charged resource and the
\* count its Increment returned, when a callback is configured, the
\* Increment succeeded and that count is greater than the resource's limit,
\* whatever the strategy; it does not invoke it at all when the count is
\* <= the limit, when no resource matches, when the Increment fails or
\* when no callback is configured.
C14_CallbackOnceWhenOver ==
    (last.op \in {"Check", "RoundTrip"}) =>
        /\ last.notified =
              IF /\ onLimitReached
                 /\ last.res > 0
                 /\ last.err # "store"
                 /\ last.count > resources[last.res].Limit
              THEN <<[Resource |-> resources[last.res],
                      Current |-> last.count]>>
              ELSE <<>>
        /\ last.fired = (last.notified # <<>>)

\* C14 witness: a Check denied under Block invoked the callback with the
\* resource and the count 2.
C14_Witness ==
    /\ last.op = "Check"
    /\ last.err = "limit"
    /\ last.res > 0
    /\ resources[last.res].Strategy = Block
    /\ last.notified = <<[Resource |-> resources[last.res], Current |-> 2]>>

\* C15: a Check returns an error that is-a ErrLimitExceeded exactly when it
\* denies; a denial happens only when the Increment of the first matching
\* resource succeeded with a count greater than that resource's limit, and
\* its error carries that resource, that count, and as reset instant the
\* bucket start plus the duration of the resource's window at the instant
\* of the Check; a store failure is returned as an error that is not
\* ErrLimitExceeded.
C15_DenialIsLimitExceeded ==
    [][\A rawURL \in URLs :
         LCheck(rawURL) =>
            LET e == CheckError(resources, last') IN
            /\ ErrorsIs(e, ErrLimitExceeded) <=> last'.err = "limit"
            /\ (e # NilError) <=> last'.err \in {"limit", "store"}
            /\ last'.err = "limit" =>
                  LET r == resources[last'.res] IN
                  /\ matchURL(rawURL, r.Pattern)
                  /\ \A j \in 1..(last'.res - 1) :
                        ~matchURL(rawURL, resources[j].Pattern)
                  /\ r.Strategy \in {Block, BlockWithQueue}
                  /\ e.type = "LimitExceededError"
                  /\ e.Resource = r
                  /\ e.Current = last'.count
                  /\ e.Current > r.Limit
                  /\ last'.count =
                        StoreIncrement(backend, Stores, r.Name,
                                       WindowOf(r.Window, now), now, up).count
                  /\ e.resetAt =
                        BucketStart(r.Window, now) + Duration(r.Window)
            /\ last'.err = "store" =>
                  /\ ~up
                  /\ e.type = "wrapError"]_vars

\* C15 witness: a Check on 2024-01-31 was denied for the monthly resource
\* with count 2, its reset instant being 2024-01-31T00:00:00.
C15_Witness ==
    /\ last.op = "Check"
    /\ last.err = "limit"
    /\ last.Current = 2
    /\ resources[last.res].Window = PerMonth
    /\ last.resetAt = 30 * 86400
    /\ ErrorsIs(CheckError(resources, last), ErrLimitExceeded)

\* C16: RoundTrip calls Check exactly once, first, with the request's URL;
\* it calls the base transport, once and after Check, if and only if Check
\* returned nil, and then returns what the base transport answered; when
\* Check returned an error (limit-exceeded or store failure) it returns
\* that error and no response.  The store changes as by that one Check.
C16_ForwardIffAllowed ==
    [][\A req \in Requests, resp \in Responses :
         LRoundTrip(req, resp) =>
            LET c == Check(resources, onLimitReached, backend, Stores,
                           URLString(req), up)
            IN /\ last'.trace[1] = [op |-> "Check", url |-> URLString(req)]
               /\ \A i \in 2..Len(last'.trace) : last'.trace[i].op # "Check"
               /\ Stores' = c.S
               /\ last'.err = c.err
               /\ c.err = "nil" =>
                     /\ last'.trace[2] = [op |-> "base.RoundTrip", req |-> req]
                     /\ Len(last'.trace) = 2
                     /\ last'.resp = resp
               /\ c.err # "nil" =>
                     /\ Len(last'.trace) = 1
                     /\ last'.resp = "none"]_vars

\* C16 witness: a RoundTrip whose Check failed because the store did not
\* answer returned the error without calling the base transport.
C16_Witness ==
    /\ last.op = "RoundTrip"
    /\ last.err = "store"
    /\ Len(last.trace) = 1
    /\ last.resp = "none"

-----------------------------------------------------------------------------
(* LimitExceededError.Wait, called by goroutines that each hold an error   *)
(* returned by an earlier Check and a context of their own; the last       *)
(* goroutine does not wait, it is the one that cancels.  The timer of      *)
(* a Wait has fired once the clock has reached resetAt.  A goroutine that  *)
(* finds no case of its select ready parks; the first send on one of the   *)
(* two channels then picks its case and wakes it.  A select that finds     *)
(* both cases ready takes either.                                          *)

\* time.Until(e.resetAt) at instant t.
Until(resetAt, t) == resetAt - t

\* The cases of the select that can proceed: ctx.Done() is closed, t.C
\* holds the timer's tick.
ReadyCases(cancelled, resetAt, t) ==
    (IF cancelled THEN {"ctx"} ELSE {}) \cup
    (IF t >= resetAt THEN {"timer"} ELSE {})

\* A Wait that reports a normal completion in both cases.
CaseResultNil(case) == "nil"

\* What the chosen case returns: ctx.Err() or nil.
CaseResult(case) == IF case = "ctx" THEN "canceled" ELSE "nil"

WaitInit ==
    /\ backend = "memory"
    /\ onLimitReached = FALSE
    /\ resources = <<>>
    /\ mem = NewMemoryStore
    /\ db = EmptyMap
    /\ rds = EmptyMap
    /\ up = TRUE
    /\ clk = 1
    /\ last = NoCheck
    /\ wasReset = [k \in Keys |-> -1]
    /\ charged = EmptyMap
    /\ Idle

WaitFrame ==
    UNCHANGED <<backend, mem, db, rds, up, last, wasReset, limiter, mu, lk,
                hist>>

\* The goroutines that call Wait.
Waiters == Procs \ {NumProcs}

\* The goroutines inside Wait that have not chosen a case yet.
Waiting == {p \in Waiters : pc[p] \in {"select", "parked"}}

\* The window kinds of the resources whose errors are waited on.
WaitKinds == {PerMinute, PerMonth}

\* p calls Wait on the error of a Check denied at the i-th instant for a
\* resource of window kind, with a context that is cancelled already or
\* not: delay := time.Until(e.resetAt); if delay <= 0 { return nil };
\* t := time.NewTimer(delay).  late is whether delay <= 0; first (history)
\* is the first of the two events to have occurred, "none" while neither
\* has; both whether the select found both cases ready.
WCall(p, kind, i, cancelled) ==
    \E resetAt \in {WindowTable[kind, i].BucketStart + Duration(kind)} :
       /\ pc[p] = "idle"
       /\ i <= clk
       /\ loc' = [loc EXCEPT ![p] =
                    [op |-> "Wait", resetAt |-> resetAt,
                     cancelled |-> cancelled,
                     late |-> Until(resetAt, now) <= 0,
                     first |-> IF Until(resetAt, now) <= 0 THEN "timer"
                               ELSE IF cancelled THEN "ctx" ELSE "none",
                     both |-> FALSE, case |-> "none",
                     result |-> IF Until(resetAt, now) <= 0 THEN "nil"
                                ELSE "none"]]
       /\ pc' = [pc EXCEPT ![p] = IF Until(resetAt, now) <= 0 THEN "done"
                                  ELSE "select"]
       /\ UNCHANGED clk
       /\ WaitFrame

\* The select: a ready case is taken, or the goroutine parks.
WSelect(p) ==
    /\ pc[p] = "select"
    /\ \E ready \in {ReadyCases(loc[p].cancelled, loc[p].resetAt, now)} :
          IF ready = {}
          THEN /\ pc' = [pc EXCEPT ![p] = "parked"]
               /\ UNCHANGED loc
          ELSE /\ \E case \in ready :
                     loc' = [loc EXCEPT ![p].case = case,
                                        ![p].both = ready = {"ctx", "timer"}]
               /\ pc' = [pc EXCEPT ![p] = "woken"]
    /\ UNCHANGED clk
    /\ WaitFrame

\* The chosen case's return, and the deferred t.Stop().
WReturn(p) ==
    /\ pc[p] = "woken"
    /\ loc' = [loc EXCEPT ![p].result = CaseResult(loc[p].case)]
    /\ pc' = [pc EXCEPT ![p] = "done"]
    /\ UNCHANGED clk
    /\ WaitFrame

\* The context of p's Wait is cancelled: ctx.Done() is closed, which wakes
\* p if it is parked.
WCancel(p) ==
    /\ pc[p] \in {"select", "parked", "woken"}
    /\ ~loc[p].cancelled
    /\ loc' = [loc EXCEPT ![p].cancelled = TRUE,
                          ![p].first = IF @ = "none" THEN "ctx" ELSE @,
                          ![p].case = IF pc[p] = "parked" THEN "ctx" ELSE @]
    /\ pc' = [pc EXCEPT ![p] = IF @ = "parked" THEN "woken" ELSE @]
    /\ UNCHANGED clk
    /\ WaitFrame

\* The clock moves on; the timers whose instant is reached send on t.C,
\* which wakes the goroutines parked on them.
WTick ==
    /\ clk < Len(Instants)
    /\ clk' = clk + 1
    /\ loc' = [p \in Procs |->
                 IF p \in Waiting /\ Instants[clk + 1] >= loc[p].resetAt
                 THEN [loc[p] EXCEPT
                         !.first = IF @ = "none" THEN "timer" ELSE @,
                         !.case = IF pc[p] = "parked" THEN "timer" ELSE @]
                 ELSE loc[p]]
    /\ pc' = [p \in Procs |->
                IF pc[p] = "parked" /\ Instants[clk + 1] >= loc[p].resetAt
                THEN "woken" ELSE pc[p]]
    /\ WaitFrame

WaitNext ==
    \/ \E p \in Waiters, kind \in WaitKinds, i \in 1..Len(Instants),
          cancelled \in BOOLEAN : WCall(p, kind, i, cancelled)
    \/ \E p \in Waiters : WSelect(p)
    \/ \E p \in Waiters : WReturn(p)
    \/ \E p \in Waiters : WCancel(p)
    \/ WTick

\* A goroutine that can run does run.
SpecWait ==
    /\ WaitInit
    /\ [][WaitNext]_vars
    /\ \A p \in Waiters : WF_vars(WSelect(p)) /\ WF_vars(WReturn(p))

\* C17: a Wait called when the reset instant is not in the future returns
\* nil at once, whatever its context.  Otherwise it does not return before
\* the reset instant is reached or its context is cancelled; it stays
\* parked only while neither has happened; it returns nil if the reset
\* instant came first and the context's error if the cancellation came
\* first (when both had happened before its select ran, the select found
\* both cases ready and it returns either of the two); and once the reset
\* instant is reached or the context is cancelled, it returns.
C17_Wait ==
    /\ [](\A p \in Waiters :
            loc[p].op = "Wait" =>
               LET w == loc[p]
                   reached == now >= w.resetAt
               IN /\ (pc[p] = "done" /\ w.late) => w.result = "nil"
                  /\ w.late => pc[p] = "done"
                  /\ (pc[p] = "done" /\ ~w.late) =>
                        /\ w.result \in {"nil", "canceled"}
                        /\ w.result = "nil" => reached
                        /\ w.result = "canceled" => w.cancelled
                        /\ ~w.both =>
                              w.result = IF w.first = "timer" THEN "nil"
                                         ELSE "canceled"
                  /\ pc[p] = "parked" => (~reached /\ ~w.cancelled)
                  /\ w.both => (reached /\ w.cancelled))
    /\ \A p \in Waiters :
          (/\ loc[p].op = "Wait"
           /\ (loc[p].cancelled \/ now >= loc[p].resetAt)) ~> (pc[p] = "done")

\* C17 witness: one Wait, called before its reset instant, has returned
\* its context's error while that instant is still ahead; another, whose
\* context was never cancelled, has returned nil after the clock reached
\* its reset instant.
C17_Witness ==
    \E p, q \in Waiters :
       /\ pc[p] = "done" /\ loc[p].op = "Wait"
       /\ ~loc[p].late /\ ~loc[p].both
       /\ loc[p].first = "ctx" /\ loc[p].result = "canceled"
       /\ now < loc[p].resetAt
       /\ pc[q] = "done" /\ loc[q].op = "Wait"
       /\ ~loc[q].late /\ ~loc[q].both
       /\ loc[q].first = "timer" /\ loc[q].result = "nil"
       /\ ~loc[q].cancelled

-----------------------------------------------------------------------------
(* Claims about Limiter.GetUsage and Limiter.ResetUsage, checked under     *)
(* Spec                                                                    *)

\* C18 as claimed: GetUsage(name) fails with the not-found error and makes
\* no store call when no registered resource has the name; otherwise it
\* makes one store call, the Get of the name in the current bucket of the
\* first resource registered with the name, and returns what that Get
\* returns, which is k when k Checks have been charged to the name in that
\* bucket since the name's last Reset; and it changes no counter of any
\* name.
C18_GetUsage ==
    [][\A name \in Keys :
         LGetUsage(name) =>
            LET named == {i \in 1..Len(resources) : resources[i].Name = name}
            IN IF named = {}
               THEN /\ last'.err = "notfound"
                    /\ last'.calls = <<>>
                    /\ Stores' = Stores
               ELSE LET first == CHOOSE i \in named : \A j \in named : i <= j
                        w     == WindowOf(resources[first].Window, now)
                        g     == StoreGet(backend, Stores, name, w, up)
                        k     == IF /\ name \in DOMAIN charged
                                    /\ charged[name].bucketKey = w.BucketKey
                                 THEN charged[name].n ELSE 0
                    IN /\ last'.calls = <<[op |-> "Get", key |-> name,
                                           bucketKey |-> w.BucketKey]>>
                       /\ last'.count = g.count
                       /\ last'.err = "nil"
                       /\ last'.count = k
                       /\ \A key \in Keys :
                             Entry(backend, Stores', key) =
                                 Entry(backend, Stores, key)]_vars

\* C19: ResetUsage(name) never fails with the not-found error, whether or
\* not a resource of that name is registered; when it succeeds the store
\* holds no counter for the name any more and the counters of the other
\* names are as before.  The matching Check that follows a successful
\* ResetUsage of a Block resource that had exceeded its limit, in the same
\* bucket, gets the count 1 and is allowed when the limit is at least 1.
C19_ResetUsage ==
    [][/\ \A name \in Keys :
            LResetUsage(name) =>
               /\ last'.err # "notfound"
               /\ resources' = resources
               /\ last'.err = "nil" =>
                     /\ Entry(backend, Stores', name) = NoEntry
                     /\ backend = "tiered" => MemEntry(mem', name) = NoEntry
                     /\ \A key \in Keys \ {name} :
                           /\ Entry(backend, Stores', key) =
                                 Entry(backend, Stores, key)
                           /\ MemEntry(mem', key) = MemEntry(mem, key)
       /\ \A rawURL \in URLs :
            (/\ LCheck(rawURL)
             /\ last.op = "ResetUsage"
             /\ last.err = "nil"
             /\ last'.res > 0
             /\ resources[last'.res].Name = last.name
             /\ resources[last'.res].Strategy = Block
             /\ last.ord > resources[last'.res].Limit) =>
               /\ last'.count = 1
               /\ resources[last'.res].Limit >= 1 => last'.err = "nil"]_vars

\* C19 witness: a Block resource had been charged more Checks than its
\* limit in the bucket, its name was reset, and the Check that followed got
\* the count 1 and was allowed.
C19_Witness ==
    /\ last.op = "Check"
    /\ last.afterReset
    /\ last.count = 1
    /\ last.err = "nil"
    /\ resources[last.res].Limit >= 1
    /\ charged[resources[last.res].Name].n = 1

-----------------------------------------------------------------------------
(* Introspection: Resources and Snapshot.  A slice is the record [shared,  *)
(* elems]: its elements, and whether its backing array is the one of       *)
(* l.resources.  Resource and ResourceStatus are structs of strings and    *)
(* integers, so an element copied by value shares nothing.  The caller     *)
(* keeps the slice it was handed last in loc[1] and may write to it.       *)

ResourceStatus(r, current) == [Resource |-> r, Current |-> current]

\* Resources that hands out l.resources itself.
ResourcesAliased(rs) == [shared |-> TRUE, elems |-> rs]

\* Limiter.Resources: make and copy.
Resources(rs) == [shared |-> FALSE, elems |-> rs]

\* One turn of Snapshot's loop, store.Get having returned g for rs[i].
RECURSIVE SnapshotFrom(_, _, _, _, _, _)
SnapshotGot(rs, i, b, ok, out, g) ==
    IF g.err # "nil"
    THEN [S |-> g.S, err |-> "store", shared |-> FALSE, elems |-> <<>>]
    ELSE SnapshotFrom(rs, i + 1, b, g.S, ok,
                      Append(out, ResourceStatus(rs[i], g.count)))

\* Snapshot's loop from the i-th resource on, out being what it has
\* appended so far; every window is built from the one now of the call.
SnapshotFrom(rs, i, b, S, ok, out) ==
    IF i > Len(rs)
    THEN [S |-> S, err |-> "nil", shared |-> FALSE, elems |-> out]
    ELSE SnapshotGot(rs, i, b, ok, out,
                     StoreGet(b, S, rs[i].Name, WindowNow(rs[i].Window), ok))

\* Limiter.Snapshot.
Snapshot(rs, b, S, ok) == SnapshotFrom(rs, 1, b, S, ok, <<>>)

\* What the caller writes into an element of a slice it was handed.
Scribbled == Resource("r2", <<"*">>, 0, PerMinute, LogOnly)

IntroFrame ==
    UNCHANGED <<pc, mu, lk, hist, backend, up, clk, last, wasReset,
                onLimitReached, charged>>

LResources ==
    /\ loc' = [loc EXCEPT ![1] = [op |-> "Resources", err |-> "nil"]
                                  @@ Resources(resources)]
    /\ UNCHANGED <<mem, db, rds, resources>>
    /\ IntroFrame

LSnapshot ==
    \E s \in {Snapshot(resources, backend, Stores, up)} :
       /\ Apply(s.S)
       /\ loc' = [loc EXCEPT ![1] = [op |-> "Snapshot", err |-> s.err,
                                     shared |-> s.shared, elems |-> s.elems]]
       /\ UNCHANGED resources
       /\ IntroFrame

\* The caller overwrites the i-th element of the slice it holds, one
\* element per slice.
LModify(i) ==
    /\ loc[1].op \in {"Resources", "Snapshot"}
    /\ i \in 1..Len(loc[1].elems)
    /\ \E v \in {IF loc[1].op = "Resources" THEN Scribbled
                 ELSE ResourceStatus(Scribbled, 0)} :
          /\ \A j \in 1..Len(loc[1].elems) : loc[1].elems[j] # v
          /\ loc' = [loc EXCEPT ![1].elems[i] = v]
          /\ resources' = IF loc[1].shared /\ i <= Len(resources)
                          THEN [resources EXCEPT ![i] = v]
                          ELSE resources
    /\ UNCHANGED <<mem, db, rds>>
    /\ IntroFrame

IntroNext ==
    \/ \E r \in ResourcePool : Register(r)
    \/ \E rawURL \in URLs : LCheck(rawURL)
    \/ Tick
    \/ LResources
    \/ LSnapshot
    \/ \E i \in 1..Cardinality(ResourcePool) : LModify(i)

\* No callback is set: introspection never invokes it.
IntroInit ==
    /\ Init
    /\ ~onLimitReached

SpecIntro == IntroInit /\ [][IntroNext]_vars

\* C20: Resources returns the registered resources in registration order
\* and Snapshot one (resource, count) entry per registered resource in
\* registration order, the count being the one the store holds for the
\* resource's name in the resource's current bucket; neither changes the
\* resource list or a counter.  A write of the caller to an element of the
\* slice it was handed changes neither the resource list nor the store,
\* nor what a Check of any URL, a GetUsage of any name, Resources or
\* Snapshot would return.
C20_IntrospectionCopies ==
    [][/\ LResources =>
            /\ loc'[1].elems = resources
            /\ resources' = resources
            /\ Stores' = Stores
       /\ LSnapshot =>
            /\ loc'[1].err = "nil"
            /\ Len(loc'[1].elems) = Len(resources)
            /\ \A i \in 1..Len(resources) :
                  /\ loc'[1].elems[i].Resource = resources[i]
                  /\ loc'[1].elems[i].Current =
                        CountIn(Entry(backend, Stores, resources[i].Name),
                                BucketKey(resources[i].Window, now))
            /\ resources' = resources
            /\ \A key \in Keys :
                  Entry(backend, Stores', key) = Entry(backend, Stores, key)
       /\ \A i \in 1..Cardinality(ResourcePool) :
            LModify(i) =>
               /\ resources' = resources
               /\ Stores' = Stores
               /\ \A rawURL \in URLs :
                     Check(resources', onLimitReached', backend', Stores',
                           rawURL, up') =
                        Check(resources, onLimitReached, backend, Stores,
                              rawURL, up)
               /\ \A name \in Keys :
                     GetUsage(resources', backend', Stores', name, up') =
                        GetUsage(resources, backend, Stores, name, up)
               /\ Snapshot(resources', backend', Stores', up') =
                     Snapshot(resources, backend, Stores, up)]_vars

\* C20 witness: the caller has overwritten an element of the slice that
\* Resources returned, the Limiter's resource at that index is the one that
\* was registered, and the last Check was charged to that resource and
\* allowed.
C20_Witness ==
    /\ loc[1].op = "Resources"
    /\ \E i \in 1..Len(loc[1].elems) :
          /\ loc[1].elems[i] = Scribbled
          /\ resources[i] \in ResourcePool
          /\ resources[i].Limit > Scribbled.Limit
          /\ last.op = "Check"
          /\ last.res = i
          /\ last.err = "nil"

-----------------------------------------------------------------------------
(* Pure functions applied by a caller to inputs of its choice: the store   *)
(* and the Limiter stay as built, last holds the inputs the caller has     *)
(* chosen and then the results as well.                                    *)

PureIdle ==
    /\ backend = "memory"
    /\ onLimitReached = FALSE
    /\ resources = <<>>
    /\ mem = NewMemoryStore
    /\ db = EmptyMap
    /\ rds = EmptyMap
    /\ up = TRUE
    /\ clk = 1
    /\ wasReset = [k \in Keys |-> -1]
    /\ charged = EmptyMap
    /\ Idle

PureFrame ==
    UNCHANGED <<conc, backend, mem, db, rds, up, clk, wasReset, limiter>>

-----------------------------------------------------------------------------
(* Window arithmetic over instants of 2024 and the first days of 2025,     *)
(* counted in seconds from 2024-01-01T00:00:00Z.                           *)

\* The instants at which something rolls over: a minute, an hour, a day,
\* thirty days, January, February 29th, a thirty-day month, the year.
Rollovers ==
    {60, 3600, 86400, 30 * 86400, 31 * 86400, 60 * 86400, 121 * 86400,
     366 * 86400}

\* The instants the caller passes: around each rollover, and a minute and
\* an hour before and after it.
WindowInstants ==
    {0} \cup {x \in {b + o : b \in Rollovers,
                             o \in {-3600, -60, -1, 0, 1, 60, 3600}} : x > 0}

\* The day of 2024-2025 on which each month from 2024-01 to 2025-02
\* starts, from the calendar.
MonthStartDays ==
    <<0, 31, 60, 91, 121, 152, 182, 213, 244, 274, 305, 335, 366, 397>>

WindowInit ==
    /\ PureIdle
    /\ last \in [op : {"input"}, kind : WindowKinds, t : WindowInstants,
                 u : WindowInstants]

\* The caller computes the windows of the kind at its two instants.
WApply ==
    /\ last.op = "input"
    /\ last' = [op |-> "Window", kind |-> last.kind, t |-> last.t,
                u |-> last.u, wt |-> WindowOf(last.kind, last.t),
                wu |-> WindowOf(last.kind, last.u)]
    /\ PureFrame

WindowNext == WApply

SpecWindow == WindowInit /\ [][WindowNext]_vars

\* C21: for each window kind and any two instants of the range, with the
\* calendar slot of an instant being its minute, hour, UTC day or UTC
\* calendar month: two instants in the same slot get the same bucket key
\* and the same bucket start; two instants in different slots, adjacent
\* ones included, get different bucket keys; the bucket start is the first
\* instant of the slot and is not after the instant; and the duration is
\* 60 s, 3600 s, 24 h and 30 x 24 h.
C21_WindowSlots ==
    last.op = "Window" =>
        LET slot(x) ==
                CASE last.kind = PerMinute -> x \div 60
                  [] last.kind = PerHour   -> x \div 3600
                  [] last.kind = PerDay    -> x \div 86400
                  [] last.kind = PerMonth  ->
                       Cardinality({i \in 1..Len(MonthStartDays) :
                                       MonthStartDays[i] * 86400 <= x})
            slotStart(x) ==
                CASE last.kind = PerMinute -> slot(x) * 60
                  [] last.kind = PerHour   -> slot(x) * 3600
                  [] last.kind = PerDay    -> slot(x) * 86400
                  [] last.kind = PerMonth  -> MonthStartDays[slot(x)] * 86400
        IN /\ slot(last.t) = slot(last.u) =>
                 /\ last.wt.BucketKey = last.wu.BucketKey
                 /\ last.wt.BucketStart = last.wu.BucketStart
           /\ slot(last.t) # slot(last.u) =>
                 last.wt.BucketKey # last.wu.BucketKey
           /\ last.wt.BucketStart = slotStart(last.t)
           /\ last.wt.BucketStart <= last.t
           /\ last.wt.Duration =
                 CASE last.kind = PerMinute -> 60
                   [] last.kind = PerHour   -> 3600
                   [] last.kind = PerDay    -> 24 * 3600
                   [] last.kind = PerMonth  -> 30 * 24 * 3600

\* C21 witness: the monthly windows of 2024-01-31T00:00:01 and of
\* 2024-02-01T00:00:00, one day apart and more than thirty days after the
\* start of January, have different bucket keys and start a calendar month
\* apart, 31 days, with a duration of 30 days.
C21_Witness ==
    /\ last.op = "Window"
    /\ last.kind = PerMonth
    /\ last.t = 30 * 86400 + 1
    /\ last.u = 31 * 86400
    /\ last.wt.BucketKey = <<2024, 1>>
    /\ last.wu.BucketKey = <<2024, 2>>
    /\ last.wt.BucketStart = 0
    /\ last.wu.BucketStart = 31 * 86400
    /\ last.wt.Duration = 30 * 86400

-----------------------------------------------------------------------------
(* matchURL applied to URLs written out from a host, a path and a query,   *)
(* http-like: scheme "h", then "://", the host, the path, the query.       *)

MatchHosts == {<<"p">>, <<"g">>}

\* Sequences over the alphabet of at most n characters.
RECURSIVE StringsUpTo(_, _)
StringsUpTo(alphabet, n) ==
    IF n = 0 THEN {<<>>}
    ELSE LET shorter == StringsUpTo(alphabet, n - 1)
         IN shorter \cup {Append(s, c) : s \in shorter, c \in alphabet}

\* The longest path of a URL and the longest literal of a pattern.
MaxPath == 3

\* The paths of the URLs: empty, or a "/" and what follows.
MatchPaths ==
    {<<>>} \cup {<<"/">> \o s : s \in StringsUpTo({"/", "v"}, MaxPath - 1)}

MatchQueries == {<<>>, <<"?", "x">>, <<"?", "/">>}

\* The patterns: every string of at most MaxPath characters without a
\* star, each of them followed by "/*", and the lone star.
MatchPatterns ==
    LET literal == StringsUpTo({"p", "/", "v"}, MaxPath)
    IN literal \cup {P \o <<"/", "*">> : P \in literal} \cup {<<"*">>}

\* The URL as the caller writes it.
RawURL(host, path, query) == <<"h", ":", "/", "/">> \o host \o path \o query

MatchInit ==
    /\ PureIdle
    /\ last \in [op : {"input"}, host : MatchHosts, path : MatchPaths,
                 query : MatchQueries, pattern : MatchPatterns]

MApply ==
    /\ last.op = "input"
    /\ \E rawURL \in {RawURL(last.host, last.path, last.query)} :
          last' = [last EXCEPT !.op = "matchURL"]
                  @@ [rawURL |-> rawURL, parsed |-> ParseURL(rawURL).ok,
                      result |-> matchURL(rawURL, last.pattern)]
    /\ PureFrame

MatchNext == MApply

SpecMatch == MatchInit /\ [][MatchNext]_vars

\* C22: with hp the host followed by the path of the URL, its trailing
\* slashes stripped and its query left out: a pattern P/* whose prefix P
\* has no star matches exactly when hp is P or starts with P followed by
\* "/"; a pattern without a star matches exactly when hp equals the
\* pattern with its trailing slashes stripped; and the pattern "*" matches
\* every such URL.
C22_MatchURL ==
    last.op = "matchURL" =>
        LET stripped(s) ==
                SubSeq(s, 1, CHOOSE n \in 0..Len(s) :
                                /\ n = 0 \/ s[n] # "/"
                                /\ \A i \in (n + 1)..Len(s) : s[i] = "/")
            startsWith(s, p) ==
                /\ Len(s) >= Len(p)
                /\ \A i \in 1..Len(p) : s[i] = p[i]
            noStar(s) == \A i \in 1..Len(s) : s[i] # "*"
            hp  == stripped(last.host \o last.path)
            pat == last.pattern
            P   == SubSeq(pat, 1, Len(pat) - 2)
        IN /\ last.parsed
           /\ (/\ Len(pat) >= 2
               /\ SubSeq(pat, Len(pat) - 1, Len(pat)) = <<"/", "*">>
               /\ noStar(P)) =>
                 (last.result <=> (hp = P \/ startsWith(hp, P \o <<"/">>)))
           /\ noStar(pat) => (last.result <=> hp = stripped(pat))
           /\ pat = <<"*">> => last.result

\* C22 witness: the pattern p/* has matched the URL h://p/?x, whose host
\* and path stripped are the prefix p itself.
C22_Witness ==
    /\ last.op = "matchURL"
    /\ last.pattern = <<"p", "/", "*">>
    /\ last.rawURL = <<"h", ":", "/", "/", "p", "/", "?", "x">>
    /\ last.result

-----------------------------------------------------------------------------
(* wildcardMatch applied to every pattern and every string of a bounded    *)
(* length over the characters "p" and "/", the pattern having stars too.   *)

\* The longest pattern and the longest string.
MaxGlob == 4

GlobInit ==
    /\ PureIdle
    /\ last \in [op : {"input"},
                 pattern : StringsUpTo({"p", "/", "*"}, MaxGlob),
                 str : StringsUpTo({"p", "/"}, MaxGlob)]

GApply ==
    /\ last.op = "input"
    /\ last' = [last EXCEPT !.op = "wildcardMatch"]
               @@ [result |-> wildcardMatch(last.pattern, last.str)]
    /\ PureFrame

GlobNext == GApply

SpecGlob == GlobInit /\ [][GlobNext]_vars

-----------------------------------------------------------------------------
(* Claims about malformed URLs, checked under Spec *)

\* C24: a Check of a URL that url.Parse rejects is allowed with no error,
\* is charged to no resource, makes no store call, invokes no callback and
\* leaves every counter as it was, whatever resources are registered, the
\* catch-all "*" among them.
C24_MalformedURLAllowed ==
    [][\A rawURL \in URLs :
         (LCheck(rawURL) /\ ~ParseURL(rawURL).ok) =>
            /\ \A i \in 1..Len(resources) :
                  ~matchURL(rawURL, resources[i].Pattern)
            /\ last'.err = "nil"
            /\ last'.res = 0
            /\ last'.calls = <<>>
            /\ ~last'.fired
            /\ last'.notified = <<>>
            /\ Stores' = Stores
            /\ charged' = charged]_vars

\* C24 witness: with a callback set and the catch-all resource registered
\* and already charged up to its limit, a Check of h://p/%, which does not
\* parse, was allowed and charged to nothing.
C24_Witness ==
    /\ last.op = "Check"
    /\ ~ParseURL(last.url).ok
    /\ last.err = "nil"
    /\ last.res = 0
    /\ onLimitReached
    /\ \E i \in 1..Len(resources) :
          /\ resources[i].Pattern = <<"*">>
          /\ resources[i].Name \in DOMAIN charged
          /\ charged[resources[i].Name].n >= resources[i].Limit
          /\ CountIn(Entry(backend, Stores, resources[i].Name),
                     BucketKey(resources[i].Window, now)) >=
                resources[i].Limit

-----------------------------------------------------------------------------
(* Store failures: the Limiter, with a callback set, over a durable        *)
(* backend that can stop answering and resume, within one minute.          *)

FailInit ==
    /\ Init
    /\ backend # "memory"
    /\ onLimitReached

FailNext ==
    \/ \E r \in ResourcePool : Register(r)
    \/ \E rawURL \in URLs : LCheck(rawURL)
    \/ \E name \in Keys : LGetUsage(name)
    \/ LSnapshot
    \/ Outage

SpecFail == FailInit /\ [][FailNext]_vars

\* C25: when the Increment of a Check fails, the Check returns a non-nil
\* error that wraps the store's error and is not a limit-exceeded error,
\* invokes no callback and has made that one Increment call and no other
\* store call; when the Get of GetUsage fails, GetUsage returns an
\* error after that one call; when a Get of Snapshot fails, Snapshot
\* returns an error and no entries at all.
C25_StoreFailure ==
    [][/\ \A rawURL \in URLs :
            (/\ LCheck(rawURL)
             /\ FirstMatch(resources, rawURL) > 0
             /\ LET r == resources[FirstMatch(resources, rawURL)]
                IN StoreIncrement(backend, Stores, r.Name,
                                  WindowOf(r.Window, now), now, up).err
                      # "nil") =>
               LET e == CheckError(resources, last')
                   r == resources[FirstMatch(resources, rawURL)]
               IN /\ e # NilError
                  /\ ErrorsIs(e, BackendError)
                  /\ ~ErrorsIs(e, ErrLimitExceeded)
                  /\ e.type # "LimitExceededError"
                  /\ ~last'.fired
                  /\ last'.notified = <<>>
                  /\ last'.calls =
                        <<[op |-> "Increment", key |-> r.Name,
                           bucketKey |-> BucketKey(r.Window, now)]>>
                  /\ Stores' =
                        StoreIncrement(backend, Stores, r.Name,
                                       WindowOf(r.Window, now), now, up).S
       /\ \A name \in Keys :
            (/\ LGetUsage(name)
             /\ \E i \in 1..Len(resources) : resources[i].Name = name
             /\ LET i == FirstOf({j \in 1..Len(resources) :
                                     resources[j].Name = name})
                IN StoreGet(backend, Stores, name,
                            WindowOf(resources[i].Window, now), up).err
                      # "nil") =>
               /\ last'.err = "store"
               /\ Len(last'.calls) = 1
       /\ LSnapshot =>
            IF \E i \in 1..Len(resources) :
                  StoreGet(backend, Stores, resources[i].Name,
                           WindowOf(resources[i].Window, now), up).err
                     # "nil"
            THEN /\ loc'[1].err = "store"
                 /\ loc'[1].elems = <<>>
            ELSE /\ loc'[1].err = "nil"
                 /\ Len(loc'[1].elems) = Len(resources)]_vars

\* C25 witness: the backend not answering, a Snapshot of two registered
\* resources has failed with no entries, and then a Check charged to a
\* resource that was at its limit has failed with the store's error
\* wrapped and without the callback.
C25_Witness ==
    /\ ~up
    /\ loc[1].op = "Snapshot"
    /\ loc[1].err = "store"
    /\ loc[1].elems = <<>>
    /\ Len(resources) >= 2
    /\ last.op = "Check"
    /\ last.err = "store"
    /\ ~last.fired
    /\ ErrorsIs(CheckError(resources, last), BackendError)
    /\ resources[last.res].Name \in DOMAIN charged
    /\ charged[resources[last.res].Name].n >= resources[last.res].Limit

-----------------------------------------------------------------------------
(* Check with a context that is cancelled already when Check is called.    *)
(* Check never looks at its context; it hands it to the store.  The        *)
(* MemoryStore ignores it (its parameter is "_"); database/sql (BeginTx)   *)
(* and the Redis client return the context's error before they send        *)
(* anything when the context is done; the TieredStore hands it to its      *)
(* persistent store first.                                                 *)

\* context.Canceled
ContextCanceled == [type |-> "errorString", text |-> "context canceled"]

\* store.Increment(ctx, key, w), done telling whether ctx is cancelled.
IncrementCtx(b, S, key, w, t, ok, done) ==
    IF done /\ b # "memory"
    THEN [S |-> S, count |-> 0, err |-> "canceled"]
    ELSE StoreIncrement(b, S, key, w, t, ok)

\* Check once store.Increment(ctx, ...) has returned inc; cause is the
\* error the store returned, which Check wraps.
CheckCtxCounted(r, i, w, cb, inc) ==
    CheckCounted(r, i, w, cb, inc) @@ [cause |-> inc.err]

CheckCtxMatched(rs, cb, b, S, i, ok, done) ==
    IF i = 0
    THEN CheckMatched(rs, cb, b, S, 0, ok) @@ [cause |-> "nil"]
    ELSE CheckCtxCounted(rs[i], i, WindowNow(rs[i].Window), cb,
                         IncrementCtx(b, S, rs[i].Name,
                                      WindowNow(rs[i].Window), now, ok, done))

\* Limiter.Check(ctx, rawURL)
CheckCtx(rs, cb, b, S, rawURL, ok, done) ==
    CheckCtxMatched(rs, cb, b, S, FirstMatch(rs, rawURL), ok, done)

\* The error value of a Check(ctx, ...) that ended as c records.
CheckCtxError(rs, c) ==
    IF c.err = "store" /\ c.cause = "canceled"
    THEN StoreError(ContextCanceled)
    ELSE CheckError(rs, c)

\* One Check whose context is cancelled already.
LCheckCtx(rawURL) ==
    \E c \in {CheckCtx(resources, onLimitReached, backend, Stores, rawURL,
                       up, TRUE)} :
    \E ord \in {IF c.res = 0 THEN 0
                ELSE Ordinal(resources[c.res].Name, c.calls[1].bucketKey)} :
       /\ ord <= MaxCount + 1
       /\ Apply(c.S)
       /\ charged' = IF c.res > 0 /\ c.err # "store"
                     THEN Put(charged, resources[c.res].Name,
                              [bucketKey |-> c.calls[1].bucketKey, n |-> ord,
                               restarted |-> FALSE])
                     ELSE charged
       /\ last' = [NoCheck EXCEPT !.op = "CheckCtx", !.url = rawURL,
                                  !.err = c.err, !.res = c.res,
                                  !.count = c.count, !.Current = c.Current,
                                  !.resetAt = c.resetAt, !.fired = c.fired,
                                  !.notified = c.notified,
                                  !.calls = c.calls, !.ord = ord]
                  @@ [cause |-> c.cause]
       /\ UNCHANGED <<conc, backend, up, clk, wasReset, resources,
                      onLimitReached>>

CancelNext ==
    \/ \E r \in ResourcePool : Register(r)
    \/ \E rawURL \in URLs : LCheck(rawURL)
    \/ \E rawURL \in URLs : LCheckCtx(rawURL)
    \/ Tick

SpecCancel == Init /\ [][CancelNext]_vars

\* C26 as claimed: a Check whose context is cancelled before the store
\* operation and whose URL matches a resource returns an error that is the
\* context's cancellation, neither a limit-exceeded error nor an ordinary
\* backend failure, on every backend, and leaves every counter as it was.
C26_CancelledCheck ==
    [][\A rawURL \in URLs :
         (LCheckCtx(rawURL) /\ FirstMatch(resources, rawURL) > 0) =>
            LET e == CheckCtxError(resources, last')
            IN /\ ErrorsIs(e, ContextCanceled)
               /\ ~ErrorsIs(e, ErrLimitExceeded)
               /\ ~ErrorsIs(e, BackendError)
               /\ mem' = mem
               /\ \A key \in Keys :
                     Entry(backend, Stores', key) =
                         Entry(backend, Stores, key)]_vars

-----------------------------------------------------------------------------
(* Resources that share a name.  Register accepts them; the store keeps    *)
(* one entry per name, with one bucket key.  The clock stands still, so no *)
(* bucket key changes; hist keeps, per name, the Checks charged to it in   *)
(* order, each with the resource charged and what came of it.              *)

\* Two Block resources of one name with different windows, and one of
\* another name.
DupPool ==
    { Resource("r1", <<"p", "/", "*">>, 1, PerMinute, Block),
      Resource("r1", <<"g", "/", "*">>, 1, PerHour, Block),
      Resource("r2", <<"*">>, 1, PerMinute, Block) }

DupInit ==
    /\ Init
    /\ ~onLimitReached

\* One Check, logged in hist under the name it was charged to.
DCheck(rawURL) ==
    \E c \in {Check(resources, onLimitReached, backend, Stores, rawURL, up)} :
       /\ c.res > 0 => Len(hist[resources[c.res].Name]) <= MaxCount + 1
       /\ Apply(c.S)
       /\ hist' = IF c.res = 0 THEN hist
                  ELSE [hist EXCEPT ![resources[c.res].Name] =
                          Append(@, [Resource |-> resources[c.res],
                                     err |-> c.err, count |-> c.count])]
       /\ last' = [NoCheck EXCEPT !.op = "Check", !.url = rawURL,
                                  !.err = c.err, !.res = c.res,
                                  !.count = c.count, !.calls = c.calls]
       /\ UNCHANGED <<pc, loc, mu, lk, backend, up, clk, wasReset, limiter>>

DupNext ==
    \/ \E r \in DupPool : Register(r)
    \/ \E rawURL \in URLs : DCheck(rawURL)

SpecDup == DupInit /\ [][DupNext]_vars

\* C27 as claimed: while no bucket key changes, the Checks charged to one
\* registered Block resource and allowed are never more than its limit,
\* whatever else is registered, resources of the same name included; and
\* the counts that the Checks charged to one resource get go up by one
\* from one to the next, whatever Checks were charged to other resources
\* in between.
C27_PerResourceLimit ==
    \A name \in Keys :
       \A i \in 1..Len(hist[name]) :
          LET r    == hist[name][i].Resource
              mine == {j \in 1..i : hist[name][j].Resource = r}
          IN /\ Cardinality({j \in mine : hist[name][j].err = "nil"})
                   <= r.Limit
             /\ hist[name][i].count = Cardinality(mine)

-----------------------------------------------------------------------------
(* One TieredStore over a SQLite store that can stop answering and resume, *)
(* driven by one caller from its creation on.  charged keeps, per key, how *)
(* many Increments the persistent tier accepted in each bucket, and        *)
(* whether a Get has backfilled the memory tier.                           *)

WriteInit ==
    /\ StoreInit
    /\ backend = "tiered"

\* The calls of this section leave these alone.
WriteFrame ==
    UNCHANGED <<conc, backend, rds, up, clk, wasReset, resources,
                onLimitReached>>

NoWrites == [incs |-> EmptyMap, backfilled |-> FALSE]

Writes(key) == IF key \in DOMAIN charged THEN charged[key] ELSE NoWrites

\* The Increments of the key that the persistent tier accepted in a bucket,
\* and in all buckets.
Accepted(key, bucketKey) ==
    IF bucketKey \in DOMAIN Writes(key).incs
    THEN Writes(key).incs[bucketKey] ELSE 0

RECURSIVE SumOf(_)
SumOf(f) ==
    IF DOMAIN f = {} THEN 0
    ELSE LET x == CHOOSE y \in DOMAIN f : TRUE
         IN f[x] + SumOf(Del(f, x))

\* last: the call, what it returned, and the two tiers' entries for the key
\* when it started.
WCalled(op, key, bucketKey, count, err) ==
    [op |-> op, key |-> key, bucketKey |-> bucketKey, count |-> count,
     err |-> err, memory |-> MemEntry(mem, key),
     persistent |-> SqlEntry(db, key)]

WIncrement(key, kind) ==
    \E r \in {TieredIncrement(mem, db, key, WindowNow(kind), up)} :
       /\ SumOf(Writes(key).incs) < MaxCount \/ ~up
       /\ mem' = r.memory
       /\ db' = r.rows
       /\ last' = WCalled("Increment", key, WindowNow(kind).BucketKey,
                          r.count, r.err)
       /\ charged' = IF r.err = "nil"
                     THEN Put(charged, key,
                              [Writes(key) EXCEPT
                                 !.incs =
                                    Put(@, WindowNow(kind).BucketKey,
                                        Accepted(key,
                                                 WindowNow(kind).BucketKey)
                                           + 1)])
                     ELSE charged
       /\ WriteFrame

WGet(key, kind) ==
    \E r \in {TieredGet(mem, db, key, WindowNow(kind), up)} :
       /\ mem' = r.memory
       /\ db' = db
       /\ last' = WCalled("Get", key, WindowNow(kind).BucketKey, r.count,
                          r.err)
       /\ charged' = IF r.memory # mem
                     THEN Put(charged, key,
                              [Writes(key) EXCEPT !.backfilled = TRUE])
                     ELSE charged
       /\ WriteFrame

WReset(key) ==
    \E r \in {TieredReset(mem, db, key, up)} :
       /\ mem' = r.memory
       /\ db' = r.rows
       /\ last' = WCalled("Reset", key, <<>>, 0, r.err)
       /\ charged' = charged
       /\ WriteFrame

WriteNext ==
    \/ \E key \in Keys, kind \in StoreKinds : WIncrement(key, kind)
    \/ \E key \in Keys, kind \in StoreKinds : WGet(key, kind)
    \/ \E key \in Keys : WReset(key)
    \/ STick
    \/ Outage

SpecWrite == WriteInit /\ [][WriteNext]_vars

\* C28: an Increment of the TieredStore whose persistent Increment fails
\* returns the error with the count 0 and leaves both tiers as they were;
\* and for every key that no Get has backfilled, the count the memory tier
\* holds for a bucket is at most the number of Increments of the key that
\* the persistent tier accepted in that bucket.
C28_MemoryNeverAhead ==
    /\ (last.op = "Increment" /\ last.err # "nil") =>
          /\ last.count = 0
          /\ MemEntry(mem, last.key) = last.memory
          /\ SqlEntry(db, last.key) = last.persistent
    /\ \A key \in Keys :
          (~Writes(key).backfilled /\ MemEntry(mem, key) # NoEntry) =>
             MemEntry(mem, key).count <=
                Accepted(key, MemEntry(mem, key).bucketKey)

\* C28 witness: an Increment has just failed with count 0 while the memory
\* tier holds the count 2 of the two Increments of that bucket which the
\* persistent tier had accepted before.
C28_Witness ==
    /\ last.op = "Increment"
    /\ last.err # "nil"
    /\ last.count = 0
    /\ ~Writes(last.key).backfilled
    /\ MemEntry(mem, last.key) =
          [count |-> MaxCount, bucketKey |-> last.bucketKey]
    /\ Accepted(last.key, last.bucketKey) = MaxCount

\* The count the persistent tier holds for the key in the bucket of the
\* window kind that a Get asks for.
DurableCount(key, bucketKey) ==
    IF SqlEntry(db, key).bucketKey = bucketKey
    THEN SqlEntry(db, key).count ELSE 0

\* A call of the TieredStore has just returned: Reset, or a Get of the key
\* whose Reset failed in the call before it.
ResetStep == last' # last /\ last'.op = "Reset"

GetAfterFailedReset ==
    /\ last.op = "Reset"
    /\ last.err # "nil"
    /\ last' # last
    /\ last'.op = "Get"
    /\ last'.key = last.key

\* C29: TieredStore.Reset deletes the memory tier's entry of the key, then
\* resets the persistent tier and returns the persistent tier's error.  When
\* that Reset fails the memory entry is gone and the persistent entry is as
\* it was, and the Get of the key that follows is answered by the persistent
\* tier: with its count of the bucket when it answers, and with its error
\* and the count 0, never a count of the memory tier, when it still fails.
C29_TieredReset ==
    [][/\ ResetStep =>
             /\ last'.err = (IF up THEN "nil" ELSE "backend")
             /\ MemEntry(mem', last'.key) = NoEntry
             /\ last'.err # "nil" => SqlEntry(db', last'.key) = last'.persistent
             /\ last'.err = "nil" => SqlEntry(db', last'.key) = NoEntry
             /\ \A key \in Keys \ {last'.key} :
                   /\ MemEntry(mem', key) = MemEntry(mem, key)
                   /\ SqlEntry(db', key) = SqlEntry(db, key)
       /\ GetAfterFailedReset =>
             /\ db' = db
             /\ IF up
                THEN /\ last'.err = "nil"
                     /\ last'.count = DurableCount(last.key, last'.bucketKey)
                ELSE /\ last'.err = "backend"
                     /\ last'.count = 0
                     /\ MemEntry(mem', last.key) = NoEntry]_vars

\* C29 witness: a Reset has just failed on a key that both tiers counted
\* MaxCount times: the memory entry is gone and the persistent one is kept.
C29_Witness ==
    /\ last.op = "Reset"
    /\ last.err # "nil"
    /\ last.memory.count = MaxCount
    /\ MemEntry(mem, last.key) = NoEntry
    /\ SqlEntry(db, last.key).count = MaxCount
    /\ SqlEntry(db, last.key) = last.persistent

\* C29 as stated: the Get that follows a failed Reset returns the persistent
\* tier's count.
C29_GetReturnsDurableCount ==
    [][GetAfterFailedReset =>
          /\ last'.err = "nil"
          /\ last'.count = DurableCount(last.key, last'.bucketKey)]_vars

-----------------------------------------------------------------------------
(* Claim about the charging of denied Checks, checked under Spec *)

\* C30 as claimed: every Check that matches a resource whose name no other
\* registered resource has is charged, whether it is allowed or denied: the
\* count it gets from the store is the number of Checks charged to the
\* resource in the bucket since the last Reset, this one included, so the
\* count of a Check past the Limit exceeds the Limit and a denied Check has
\* been counted too; and GetUsage of the name returns the number of Checks
\* charged to it in the current bucket.
C30_DeniedChecksCharged ==
    [][/\ (/\ last' # last
           /\ last'.op = "Check"
           /\ last'.unique) =>
             /\ last'.err \in {"nil", "limit"}
             /\ last'.count = last'.ord
             /\ last'.ord > resources[last'.res].Limit =>
                   last'.count > resources[last'.res].Limit
             /\ Entry(backend, Stores', resources[last'.res].Name).count =
                   last'.ord
       /\ (/\ last' # last
           /\ last'.op = "GetUsage"
           /\ Cardinality({i \in 1..Len(resources) :
                              resources[i].Name = last'.name}) = 1) =>
             /\ last'.err = "nil"
             /\ last'.count = ChargedNow(last'.name)]_vars

-----------------------------------------------------------------------------
(* Limiter.mu, the sync.RWMutex that Register takes with Lock and Check,   *)
(* GetUsage, Snapshot and Resources take with RLock.  Goroutines call      *)
(* Check and Register concurrently over a MemoryStore whose Increment      *)
(* always returns; the limit-reached callback runs inside Check, with the  *)
(* read lock held, and calls back into the Limiter.  For a goroutine in a  *)
(* call, loc holds the call (op, url or resource r), the call its callback *)
(* makes (cb, "none" outside the callback), held, the read locks of l.mu   *)
(* it holds, and seen, l.resources as it was when the call's RLock         *)
(* returned; pc is the position of the innermost call.                     *)

\* What the callback calls on the Limiter: nothing, or one of its methods.
CallbackCalls == {"none", "Register", "Check", "GetUsage", "Snapshot",
                  "Resources"}

\* The resources the Limiter of this section ends up with, at most.
MaxResources == 2

Held(p) == IF pc[p] = "idle" THEN 0 ELSE loc[p].held

RECURSIVE ReadersAmong(_)
ReadersAmong(ps) ==
    IF ps = {} THEN 0
    ELSE LET p == CHOOSE q \in ps : TRUE
         IN Held(p) + ReadersAmong(ps \ {p})

\* sync.RWMutex: the read locks held, and whether a writer has announced
\* itself (it holds rw.w and waits for the readers to leave, or writes).
ReaderCount == ReadersAmong(Procs)

WriterPending == \E q \in Procs : pc[q] \in {"drain", "write"}

\* RLock returns when no writer is pending or writing.
CanRLock == ~WriterPending

\* Lock takes rw.w, which one writer holds at a time, and announces itself.
CanAnnounce == ~WriterPending

\* A Lock that does not wait for the readers.
CanWriteAmongReaders == TRUE

\* Lock returns once the readers that were active have all left.
CanWrite == ReaderCount = 0

\* The Checks that have been called and have not incremented yet.
Incrementing ==
    Cardinality({p \in Procs : pc[p] \in {"RLock", "Increment"}
                                 /\ (loc[p].op = "Check"
                                       \/ loc[p].cb = "Check")})

\* The Registers that have been called and have not appended yet.
Registering ==
    Cardinality({p \in Procs : pc[p] \in {"Lock", "drain", "write"}})

LockInit ==
    /\ backend = "memory"
    /\ onLimitReached = TRUE
    /\ resources = <<Resource("r2", <<"*">>, 1, PerMonth, Block)>>
    /\ mem = NewMemoryStore
    /\ db = EmptyMap
    /\ rds = EmptyMap
    /\ up = TRUE
    /\ clk = 1
    /\ last = NoCheck
    /\ wasReset = [k \in Keys |-> -1]
    /\ charged = EmptyMap
    /\ Idle

LockFrame ==
    UNCHANGED <<backend, db, rds, up, clk, last, wasReset, onLimitReached,
                charged, mu, lk, hist>>

\* A goroutine calls Check: l.mu.RLock() is next.
KCheck(p, rawURL) ==
    /\ pc[p] = "idle"
    /\ MemGet(mem, "r2", WindowNow(PerMonth)) + Incrementing <= MaxCount
    /\ pc' = [pc EXCEPT ![p] = "RLock"]
    /\ loc' = [loc EXCEPT ![p] = [op |-> "Check", url |-> rawURL,
                                  r |-> <<>>, cb |-> "none", held |-> 0,
                                  seen |-> <<>>]]
    /\ UNCHANGED <<mem, resources>>
    /\ LockFrame

\* A goroutine calls GetUsage, Snapshot or Resources: l.mu.RLock() is next.
KReader(p, f) ==
    /\ pc[p] = "idle"
    /\ pc' = [pc EXCEPT ![p] = "RLock"]
    /\ loc' = [loc EXCEPT ![p] = [op |-> f, url |-> <<>>, r |-> <<>>,
                                  cb |-> "none", held |-> 0, seen |-> <<>>]]
    /\ UNCHANGED <<mem, resources>>
    /\ LockFrame

\* A goroutine calls Register(r): l.mu.Lock() is next.
KRegister(p, r) ==
    /\ pc[p] = "idle"
    /\ Len(resources) + Registering < MaxResources
    /\ pc' = [pc EXCEPT ![p] = "Lock"]
    /\ loc' = [loc EXCEPT ![p] = [op |-> "Register", url |-> <<>>,
                                  r |-> <<r>>, cb |-> "none", held |-> 0,
                                  seen |-> <<>>]]
    /\ UNCHANGED <<mem, resources>>
    /\ LockFrame

\* l.mu.RLock() returns, in Check, in a reading call or in the reading call
\* of the callback.
KRLock(p) ==
    /\ pc[p] = "RLock"
    /\ CanRLock
    /\ pc' = [pc EXCEPT ![p] = IF loc[p].op = "Check" /\ loc[p].cb = "none"
                               THEN "Increment" ELSE "read"]
    /\ loc' = [loc EXCEPT ![p].held = @ + 1,
                          ![p].seen = IF loc[p].held = 0 THEN resources
                                      ELSE @]
    /\ UNCHANGED <<mem, resources>>
    /\ LockFrame

\* Check's loop and store.Increment, then the comparison with the Limit:
\* the callback is next when the count is over it.
KIncrement(p) ==
    /\ pc[p] = "Increment"
    /\ \E c \in {Check(resources, onLimitReached, backend, Stores,
                       loc[p].url, up)} :
          /\ mem' = c.S.mem
          /\ pc' = [pc EXCEPT ![p] = IF c.fired THEN "callback"
                                     ELSE "RUnlock"]
    /\ UNCHANGED <<loc, resources>>
    /\ LockFrame

\* l.onLimitReached(r, current) starts: it calls f on the Limiter, or
\* nothing.
KCallback(p, f, r) ==
    /\ pc[p] = "callback"
    /\ f = "Register" => Len(resources) + Registering < MaxResources
    /\ f = "Check" =>
          MemGet(mem, "r2", WindowNow(PerMonth)) + Incrementing <= MaxCount
    /\ pc' = [pc EXCEPT ![p] = CASE f = "none" -> "RUnlock"
                                 [] f = "Register" -> "Lock"
                                 [] OTHER -> "RLock"]
    /\ loc' = [loc EXCEPT ![p].cb = f,
                          ![p].r = IF f = "Register" THEN <<r>> ELSE @]
    /\ UNCHANGED <<mem, resources>>
    /\ LockFrame

\* GetUsage, Snapshot or Resources, or the callback's Check, with the read
\* lock: the Check increments (its own callback does nothing), the others
\* read; then the deferred RUnlock, and the return: of the callback into
\* Check, or to the goroutine.
KRead(p) ==
    /\ pc[p] = "read"
    /\ mem' = IF loc[p].cb = "Check"
              THEN Check(resources, onLimitReached, backend, Stores,
                         loc[p].url, up).S.mem
              ELSE mem
    /\ pc' = [pc EXCEPT ![p] = IF loc[p].op = "Check" THEN "RUnlock"
                               ELSE "idle"]
    /\ loc' = [loc EXCEPT ![p] = IF loc[p].op = "Check"
                                 THEN [@ EXCEPT !.cb = "none",
                                                !.held = @ - 1]
                                 ELSE NoLocal]
    /\ UNCHANGED resources
    /\ LockFrame

\* l.mu.Lock(), first half: rw.w taken, the writer announced.
KLock(p) ==
    /\ pc[p] = "Lock"
    /\ CanAnnounce
    /\ pc' = [pc EXCEPT ![p] = "drain"]
    /\ UNCHANGED <<loc, mem, resources>>
    /\ LockFrame

\* l.mu.Lock(), second half: the active readers have left.
KDrained(p) ==
    /\ pc[p] = "drain"
    /\ CanWrite
    /\ pc' = [pc EXCEPT ![p] = "write"]
    /\ UNCHANGED <<loc, mem, resources>>
    /\ LockFrame

\* Register appends and unlocks; a Register of the callback returns into
\* Check.
KAppend(p) ==
    /\ pc[p] = "write"
    /\ resources' = Append(resources, loc[p].r[1])
    /\ pc' = [pc EXCEPT ![p] = IF loc[p].op = "Register" THEN "idle"
                               ELSE "RUnlock"]
    /\ loc' = [loc EXCEPT ![p] = IF loc[p].op = "Register" THEN NoLocal
                                 ELSE [@ EXCEPT !.cb = "none"]]
    /\ UNCHANGED mem
    /\ LockFrame

\* Check's deferred l.mu.RUnlock(), and its return.
KRUnlock(p) ==
    /\ pc[p] = "RUnlock"
    /\ pc' = [pc EXCEPT ![p] = "idle"]
    /\ loc' = [loc EXCEPT ![p] = NoLocal]
    /\ UNCHANGED <<mem, resources>>
    /\ LockFrame

\* What a goroutine inside a call does next.
KStep(p) ==
    \/ KRLock(p)
    \/ KIncrement(p)
    \/ \E f \in CallbackCalls, r \in ResourcePool : KCallback(p, f, r)
    \/ KRead(p)
    \/ KLock(p)
    \/ KDrained(p)
    \/ KAppend(p)
    \/ KRUnlock(p)

LockNext ==
    \E p \in Procs :
       \/ \E rawURL \in URLs : KCheck(p, rawURL)
       \/ \E r \in ResourcePool : KRegister(p, r)
       \/ KStep(p)

\* A goroutine that can run does run.
SpecLock ==
    /\ LockInit
    /\ [][LockNext]_vars
    /\ \A p \in Procs : WF_vars(KStep(p))

\* C31 as claimed: every Check that a goroutine has called returns, the
\* store's Increment returning, whatever the limit-reached callback calls on
\* the Limiter and while other goroutines call Register.
C31_CheckReturns ==
    \A p \in Procs :
       (pc[p] # "idle" /\ loc[p].op = "Check") ~> (pc[p] = "idle")

-----------------------------------------------------------------------------
(* The same goroutines, some of them calling GetUsage, Snapshot and        *)
(* Resources as well.                                                      *)

ReadNext ==
    \/ LockNext
    \/ \E p \in Procs, f \in CallbackCalls \ {"none", "Register", "Check"} :
          KReader(p, f)

SpecRead == LockInit /\ [][ReadNext]_vars

\* C32: the resource list only grows, by Register appending its argument,
\* whatever it is, at the end, the resources registered before keeping
\* their places and values; and it does not change while a Check, GetUsage,
\* Snapshot or Resources holds the read lock, so each of them sees the list
\* as it was before a concurrent Register or as it is after it, never in
\* between.
C32_AppendOnlyAtomic ==
    [][/\ resources' # resources =>
             /\ \E p \in Procs :
                   /\ pc[p] = "write"
                   /\ resources' = Append(resources, loc[p].r[1])
             /\ ReaderCount = 0
       /\ \A p \in Procs :
             (pc'[p] # "idle" /\ loc'[p].held > 0) =>
                loc'[p].seen = resources']_vars

\* C32 witness: a Check holds the read lock, having seen the list with a
\* resource that a Register appended before, while a reading call is
\* between its RLock and its RUnlock too.
C32_Witness ==
    \E p, q \in Procs :
       /\ pc[p] = "Increment"
       /\ pc[q] = "read"
       /\ loc[q].op # "Check"
       /\ Len(resources) = MaxResources
       /\ loc[p].seen = resources
       /\ loc[q].seen = resources

-----------------------------------------------------------------------------
(* Claim about the reset instant of a denial, checked under SpecWindow *)

\* C33 as claimed: for every window kind, a Check denied at the instant t
\* carries the reset instant BucketStart + Duration of its bucket, which is
\* after t; at every later instant u before the reset instant the bucket
\* key is still the denied one, and at every instant u at or after it the
\* bucket key is another one, so that the Check that follows a Wait that
\* returned nil starts a new bucket.
C33_ResetAtEndsBucket ==
    (last.op = "Window" /\ last.t <= last.u) =>
        LET resetAt == last.wt.BucketStart + last.wt.Duration
        IN /\ last.t < resetAt
           /\ last.u < resetAt => last.wu.BucketKey = last.wt.BucketKey
           /\ last.u >= resetAt => last.wu.BucketKey # last.wt.BucketKey

-----------------------------------------------------------------------------
(* The RedisStore driven directly by one caller, with every window kind,   *)
(* over the whole clock.  charged keeps, per key, the window kind and the  *)
(* bucket key of its last Increment and how many Increments that bucket    *)
(* has seen since the key's last Reset.                                    *)

RedisInit == StoreInit /\ backend = "redis"

RIncrement(key, kind) ==
    \E w \in {WindowNow(kind)} :
    \E r \in {RedisIncrement(rds, key, w, now, up)} :
       /\ Ordinal(key, w.BucketKey) <= MaxCount
       /\ rds' = r.hashes
       /\ last' = [op |-> "Increment", key |-> key, kind |-> kind,
                   bucketKey |-> w.BucketKey, count |-> r.count,
                   err |-> r.err, ord |-> Ordinal(key, w.BucketKey),
                   expireAt |-> RedisExpiry(r.hashes, key),
                   hadExpireAt |-> RedisExpiry(rds, key)]
       /\ charged' = Put(charged, key,
                         [bucketKey |-> w.BucketKey, kind |-> kind,
                          n |-> Ordinal(key, w.BucketKey)])
       /\ UNCHANGED <<conc, backend, mem, db, up, clk, wasReset, resources,
                      onLimitReached>>

RReset(key) ==
    \E r \in {RedisReset(rds, key, up)} :
       /\ rds' = r.hashes
       /\ last' = [op |-> "Reset", key |-> key, kind |-> "",
                   bucketKey |-> <<>>, count |-> 0, err |-> r.err,
                   ord |-> 0, expireAt |-> 0, hadExpireAt |-> 0]
       /\ charged' = Del(charged, key)
       /\ UNCHANGED <<conc, backend, mem, db, up, clk, wasReset, resources,
                      onLimitReached>>

RedisNext ==
    \/ \E key \in Keys, kind \in WindowKinds : RIncrement(key, kind)
    \/ \E key \in Keys : RReset(key)
    \/ Tick

SpecRedis == RedisInit /\ [][RedisNext]_vars

\* C34 as claimed: an Increment of the RedisStore sets the key's expiry, to
\* the instant of the call plus the window's duration, when it starts a
\* bucket and leaves the expiry alone otherwise; the i-th Increment of a key
\* within one bucket since the key's last Reset returns i, for every window
\* kind; and no counter expires while its bucket key is the current bucket
\* key of its window kind.
C34_ExpiryOnlyStale ==
    [][/\ (last' # last /\ last'.op = "Increment") =>
             /\ last'.count = last'.ord
             /\ last'.count = 1 =>
                   last'.expireAt = now + Duration(last'.kind)
             /\ last'.count > 1 => last'.expireAt = last'.hadExpireAt
       /\ \A key \in DOMAIN charged :
             (/\ clk' # clk
              /\ RedisEntry(rds, key) # NoEntry
              /\ RedisEntry(rds', key) = NoEntry) =>
                RedisEntry(rds, key).bucketKey #
                   WindowTable[charged[key].kind, clk'].BucketKey]_vars

-----------------------------------------------------------------------------
(* The Limiter with one resource of any Strategy value and a Limit around  *)
(* zero: Strategy is an int, and Register takes what it is given.          *)

\* The values of a Strategy that the caller registers: the three named
\* ones and one that has no name.
StrategyValues == {Block, BlockWithQueue, LogOnly, LogOnly + 1}

StrategyPool ==
    {Resource("r2", <<"*">>, limit, PerMinute, strategy) :
        limit \in {-1, 0, 1}, strategy \in StrategyValues}

StrategyNext ==
    \/ \E r \in StrategyPool : Len(resources) = 0 /\ Register(r)
    \/ \E rawURL \in URLs : LCheck(rawURL)
    \/ \E name \in Keys : LGetUsage(name)
    \/ Tick

SpecStrategy == Init /\ [][StrategyNext]_vars

\* C35 as claimed: whatever Strategy and Limit the registered resource has,
\* a Check that the store counts past the Limit fails with the
\* limit-exceeded error unless the Strategy is LogOnly; a resource with the
\* zero Strategy is treated as Block, failing exactly when the count is
\* past the Limit; and with a Limit of zero or less the first matching
\* Check is already denied.
C35_OverLimitDenied ==
    (last.op = "Check" /\ last.res > 0 /\ last.err # "store") =>
        LET r == resources[last.res] IN
        /\ (last.count > r.Limit /\ r.Strategy # LogOnly) =>
              last.err = "limit"
        /\ r.Strategy = 0 =>
              /\ r.Strategy = Block
              /\ last.err = "limit" <=> last.count > r.Limit
        /\ (r.Limit <= 0 /\ r.Strategy # LogOnly) => last.err = "limit"

=============================================================================
